---- MODULE Spec2Model ----
(***************************************************************************)
(* Model of the portfolio application's entity store (core/models.py) and  *)
(* of the request handlers that write to it (core/views.py), the admin     *)
(* actions (core/admin.py) and the export_json management command.         *)
(*                                                                         *)
(* The database is modelled as tables: functions from primary keys to a    *)
(* row record, or to NoRow where no row has that key.  A model instance    *)
(* held in memory by a handler is a record of the same shape; Model.save   *)
(* writes the instance over the row with its key (UPDATE) or into a fresh  *)
(* key (INSERT).  A queryset .update(...) is one statement and one step.   *)
(*                                                                         *)
(* Specifications:                                                         *)
(*   SpecSingleton      Profile / SiteSettings, one save at a time         *)
(*   SpecSingletonConc  the same saves, statement by statement, by         *)
(*                      several requests at once                           *)
(*   SpecBlog           BlogPost.save and the blog post page, one request  *)
(*                      at a time                                          *)
(*   SpecBlogConc       the blog post page, statement by statement, by     *)
(*                      several requests at once                           *)
(*   SpecSlug           the slug-carrying models and their unique          *)
(*                      constraints, one table per behaviour               *)
(*   SpecRef            the foreign keys and their on_delete, one relation *)
(*                      per behaviour                                      *)
(*   SpecSettingsConc   get_settings called while several requests save    *)
(*   SpecContact        the contact form, one submission at a time         *)
(*   SpecContactRate    well-formed contact submissions over time          *)
(*   SpecProjects       the projects listing over every table and query    *)
(*   SpecSkills         the skills listing over every table and query      *)
(*   SpecListing        the blog listing, page by page                     *)
(*   SpecCert           Certification.is_expired as the days pass          *)
(*   SpecBlogAdmin      SpecBlog's requests with the admin's bulk actions  *)
(*   SpecExperience     Experience.duration and its admin column           *)
(*   SpecExport         the export_json command after edits of the store   *)
(*   SpecSaveFail       Profile / SiteSettings saves whose persist raises  *)
(*   SpecSettingsRace   get_settings, step by step, by several requests    *)
(***************************************************************************)
EXTENDS Integers, Sequences, FiniteSets, TLC

VARIABLES
    singles,      \* [Models -> [Ids -> row | NoRow]]: Profile and SiteSettings tables
    lastSaved,    \* [Models -> id | 0]: the row written by the latest save() of the model
    allActive,    \* [Models -> BOOLEAN]: every save() of the model so far carried is_active
    settingsRet,  \* what the latest SiteSettings.get_settings() returned
    saver,        \* [Savers -> request]: the saves in flight (SpecSingletonConc)
    posts,        \* [PostIds -> row | NoRow]: the BlogPost table
    now,          \* timezone.now(): the current instant, 1..MaxClock
    op,           \* the latest blog request: its name, arguments and outcome
    nviews,       \* [PostIds -> Nat]: completed views of each post (history)
    viewer,       \* [Viewers -> request]: the post views in flight (SpecBlogConc)
    count0,       \* [PostIds -> Nat]: view_count before the concurrent views (history)
    kind,         \* the slug-carrying model whose table ents is
    ents,         \* [EntIds -> row | NoRow]: the table of model kind
    areas,        \* [AreaIds -> row | NoRow]: the SkillArea table beside a Skill table
    born,         \* [EntIds -> record]: how each row of ents was created (history)
    wr,           \* the latest write to ents or areas: the instance and the outcome
    rel,          \* the relation in play: parent model, child model, on_delete of the key
    parents,      \* [ParentIds -> row | NoRow]: the table of rel.parent
    children,     \* [ChildIds -> row | NoRow]: the table of rel.child, each row with its key
    del,          \* the latest request on the two tables: its name, its row, the rows that referred to it
    msgs,         \* the ContactMessage table: the rows in order of creation
    ctime,        \* the instant contact submissions arrive at, 0..MaxTime
    sub,          \* the latest contact submission: POST data, request headers, outcome
    projTable,    \* [ProjIds -> row | NoRow]: the Project table
    projGet,      \* the query string of the latest projects request
    projList,     \* the projects the latest projects request listed
    skillTable,   \* [SkillIds -> row | NoRow]: the Skill table
    skillAreas,   \* [SkillAreaIds -> row]: the SkillArea table the skills refer to
    skillGet,     \* the query string of the latest skills request
    skillList,    \* the skills the latest skills request listed, in order
    blogTable,    \* [ListedIds -> row | NoRow]: the BlogPost table behind the blog listing
    blogPages,    \* [PageNos -> response]: the pages of the blog listing fetched so far
    certTable,    \* [CertIds -> row | NoRow]: the Certification table
    today,        \* timezone.now().date(): the current day, 1..MaxDay
    certRead,     \* the latest read of is_expired: the row, the day, the value
    expRow,       \* the Experience row under study: start_date, end_date
    expToday,     \* the current date of the server
    expRead,      \* the latest read of Experience.duration: the caller and the outcome
    xStore,       \* the stored rows the export reads: profiles, settings, skills
    xFiles,       \* the files of portfolio_project/data
    xRuns,        \* the reports of the export runs so far, oldest first
    fModel,       \* the singleton model whose save() may fail: Profile or SiteSettings
    fTable,       \* the rows of that model
    fSave,        \* the latest save() call: its instance, the table before it, whether it raised
    gsStart,      \* the SiteSettings rows before the requests call get_settings
    gsTable,      \* the SiteSettings rows
    gsCall        \* per request: its position in get_settings and the row returned

singletonVars == <<singles, lastSaved, allActive, settingsRet, saver>>
blogVars == <<posts, now, op, nviews, viewer, count0>>
slugVars == <<kind, ents, areas, born, wr>>
refVars == <<rel, parents, children, del>>
contactVars == <<msgs, ctime, sub>>
projVars == <<projTable, projGet, projList>>
skillVars == <<skillTable, skillAreas, skillGet, skillList>>
listingVars == <<blogTable, blogPages>>
certVars == <<certTable, today, certRead>>
expVars == <<expRow, expToday, expRead>>
exportVars == <<xStore, xFiles, xRuns>>
failVars == <<fModel, fTable, fSave>>
raceVars == <<gsStart, gsTable, gsCall>>
vars == <<singletonVars, blogVars, slugVars, refVars, contactVars, projVars, skillVars, listingVars, certVars, expVars, exportVars, failVars, raceVars>>

\* All the variables but those of one part.
exceptSingleton == <<blogVars, slugVars, refVars, contactVars, projVars, skillVars, listingVars, certVars, expVars, exportVars, failVars, raceVars>>
exceptBlog == <<singletonVars, slugVars, refVars, contactVars, projVars, skillVars, listingVars, certVars, expVars, exportVars, failVars, raceVars>>
exceptSlug == <<singletonVars, blogVars, refVars, contactVars, projVars, skillVars, listingVars, certVars, expVars, exportVars, failVars, raceVars>>
exceptRef == <<singletonVars, blogVars, slugVars, contactVars, projVars, skillVars, listingVars, certVars, expVars, exportVars, failVars, raceVars>>
exceptContact == <<singletonVars, blogVars, slugVars, refVars, projVars, skillVars, listingVars, certVars, expVars, exportVars, failVars, raceVars>>
exceptProj == <<singletonVars, blogVars, slugVars, refVars, contactVars, skillVars, listingVars, certVars, expVars, exportVars, failVars, raceVars>>
exceptSkill == <<singletonVars, blogVars, slugVars, refVars, contactVars, projVars, listingVars, certVars, expVars, exportVars, failVars, raceVars>>
exceptListing == <<singletonVars, blogVars, slugVars, refVars, contactVars, projVars, skillVars, certVars, expVars, exportVars, failVars, raceVars>>
exceptCert == <<singletonVars, blogVars, slugVars, refVars, contactVars, projVars, skillVars, listingVars, expVars, exportVars, failVars, raceVars>>
exceptExp == <<singletonVars, blogVars, slugVars, refVars, contactVars, projVars, skillVars, listingVars, certVars, exportVars, failVars, raceVars>>
exceptExport == <<singletonVars, blogVars, slugVars, refVars, contactVars, projVars, skillVars, listingVars, certVars, expVars, failVars, raceVars>>
exceptFail == <<singletonVars, blogVars, slugVars, refVars, contactVars, projVars, skillVars, listingVars, certVars, expVars, exportVars, raceVars>>
exceptRace == <<singletonVars, blogVars, slugVars, refVars, contactVars, projVars, skillVars, listingVars, certVars, expVars, exportVars, failVars>>

(***************************************************************************)
(* Bounds of the model.                                                    *)
(***************************************************************************)
MaxRows == 3      \* primary keys 1..MaxRows per table
NSavers == 2      \* concurrent requests that save a Profile / SiteSettings row
MaxPosts == 2     \* primary keys 1..MaxPosts of the BlogPost table
MaxClock == 2     \* instants 1..MaxClock
MaxViews == 2     \* view_count is counted up to MaxViews
NViewers == 3     \* concurrent requests for a blog post page
MaxEnts == 2      \* primary keys 1..MaxEnts of a slug-carrying table
MaxAreas == 2     \* primary keys 1..MaxAreas of the SkillArea table beside Skill
MaxParents == 2   \* primary keys 1..MaxParents of a referenced table
MaxChildren == 2  \* primary keys 1..MaxChildren of a referring table
MaxMsgs == 2      \* ContactMessage rows stored in SpecContact
MaxBurst == 6     \* ContactMessage rows stored in SpecContactRate
MaxTime == 2      \* instants 0..MaxTime of the contact submissions
MaxProjs == 2     \* primary keys 1..MaxProjs of the Project table
MaxSkills == 3    \* primary keys 1..MaxSkills of the Skill table
MaxListed == 13   \* primary keys 1..MaxListed of the BlogPost table behind the listing
FreePosts == 3    \* the posts of that table whose status and date vary freely
MaxPageNo == 3    \* page numbers 1..MaxPageNo a client asks for
MaxCerts == 2     \* primary keys 1..MaxCerts of the Certification table
MaxDay == 3       \* days 1..MaxDay
MaxSpan == 2      \* years 2020..2020+MaxSpan of the experience dates
MaxExported == 2  \* Skill rows stored beside the export
MaxRuns == 2      \* runs of the export command
NCallers == 2     \* concurrent requests that call SiteSettings.get_settings

Ids == 1..MaxRows
NoRow == [exists |-> FALSE]
Models == {"Profile", "SiteSettings"}

PostIds == 1..MaxPosts
Viewers == 1..NViewers

EntIds == 1..MaxEnts
AreaIds == 1..MaxAreas

\* The models that derive a slug in save().
Kinds == {"SkillArea", "Skill", "ProjectCategory", "Project",
          "BlogSeries", "BlogCategory", "BlogTag", "BlogPost"}

NoWrite == [name |-> "none", table |-> "none", id |-> 0, inst |-> NoRow, res |-> "none"]

NotBorn == [auto |-> FALSE, text |-> <<>>]

\* The slug part of the state where only other parts are exercised.
SlugIdle ==
    /\ kind = "SkillArea"
    /\ ents = [i \in EntIds |-> NoRow]
    /\ areas = [i \in AreaIds |-> NoRow]
    /\ born = [i \in EntIds |-> NotBorn]
    /\ wr = NoWrite

\* No blog request made yet.
NoOp == [name |-> "none", id |-> 0, slug |-> <<>>, res |-> "none", edit |-> "keep", failed |-> FALSE]

IdleViewer == [pc |-> "idle", id |-> 0, obj |-> NoRow, res |-> "none"]

\* The blog part of the state where only other parts are exercised.
BlogIdle ==
    /\ posts = [i \in PostIds |-> NoRow]
    /\ now = 1
    /\ op = NoOp
    /\ nviews = [i \in PostIds |-> 0]
    /\ viewer = [p \in Viewers |-> IdleViewer]
    /\ count0 = [i \in PostIds |-> 0]

ParentIds == 1..MaxParents
ChildIds == 1..MaxChildren

\* The foreign keys with a declared on_delete.
Relations ==
    { [parent |-> "SkillArea", child |-> "Skill", on_delete |-> "CASCADE", null |-> FALSE],
      [parent |-> "Project", child |-> "ProjectImage", on_delete |-> "CASCADE", null |-> FALSE],
      [parent |-> "ProjectCategory", child |-> "Project", on_delete |-> "SET_NULL", null |-> TRUE],
      [parent |-> "BlogSeries", child |-> "BlogPost", on_delete |-> "SET_NULL", null |-> TRUE],
      [parent |-> "BlogCategory", child |-> "BlogPost", on_delete |-> "SET_NULL", null |-> TRUE] }

\* A key column holding NULL.
NullRef == 0

NoDel == [name |-> "none", id |-> 0, kids |-> {}, res |-> "none"]

\* The referential part of the state where only other parts are exercised.
RefIdle ==
    /\ rel = [parent |-> "SkillArea", child |-> "Skill", on_delete |-> "CASCADE", null |-> FALSE]
    /\ parents = [i \in ParentIds |-> NoRow]
    /\ children = [i \in ChildIds |-> NoRow]
    /\ del = NoDel

NoSub == [post |-> [name |-> <<>>, email |-> <<>>, subject |-> <<>>, message |-> <<>>],
          meta |-> [REMOTE_ADDR |-> <<>>], res |-> "none", errors |-> {}]

\* The contact part of the state where only other parts are exercised.
ContactIdle ==
    /\ msgs = <<>>
    /\ ctime = 0
    /\ sub = NoSub

ProjIds == 1..MaxProjs

\* A query string without parameters.
NoGet == [k \in {} |-> <<>>]

\* The projects part of the state where only other parts are exercised.
ProjIdle ==
    /\ projTable = [i \in ProjIds |-> NoRow]
    /\ projGet = NoGet
    /\ projList = {}

SkillIds == 1..MaxSkills

\* The two areas of the skills listing.
SkillAreaIds == {1, 2}

AreaRow(name, slug, order) == [name |-> name, slug |-> slug, order |-> order]

\* The skills part of the state where only other parts are exercised.
SkillIdle ==
    /\ skillTable = [i \in SkillIds |-> NoRow]
    /\ skillAreas = [a \in SkillAreaIds |-> AreaRow(<<"A">>, <<"x">>, 0)]
    /\ skillGet = NoGet
    /\ skillList = <<>>

ListedIds == 1..MaxListed
PageNos == 1..MaxPageNo

NotFetched == [res |-> "none", objs |-> <<>>]

\* The blog listing part of the state where only other parts are exercised.
ListingIdle ==
    /\ blogTable = [i \in ListedIds |-> NoRow]
    /\ blogPages = [p \in PageNos |-> NotFetched]

CertIds == 1..MaxCerts
Days == 1..MaxDay

NoRead == [id |-> 0, day |-> 0, value |-> FALSE]

\* The certification part of the state where only other parts are exercised.
CertIdle ==
    /\ certTable = [i \in CertIds |-> NoRow]
    /\ today = 1
    /\ certRead = NoRead

\* Dates are written yyyymmdd; NoDate is the empty end_date.
ExpYears == 2020..(2020 + MaxSpan)
ExpDates == {y * 10000 + m * 100 + d : y \in ExpYears, m \in {1, 3, 4}, d \in {14, 15}}
NoExperience == [exists |-> FALSE]
NoDuration == [via |-> "none", raised |-> "none", text |-> ""]

\* The experience part of the state where only other parts are exercised.
ExpIdle ==
    /\ expRow = NoExperience
    /\ expToday = 20200114
    /\ expRead = NoDuration

\* The export steps of handle, in its order, and the file each one writes.
Steps == <<"profile", "skills", "projects", "experience", "certifications", "blog", "site">>
StepSet == {Steps[i] : i \in 1..Len(Steps)}
NoFile == [exists |-> FALSE]
NoYears == -1
EmptyStore ==
    [profiles |-> [i \in 1..MaxRows |-> [exists |-> FALSE]],
     settings |-> [i \in 1..MaxRows |-> [exists |-> FALSE]],
     skills |-> <<>>]

\* The export part of the state where only other parts are exercised.
ExportIdle ==
    /\ xStore = EmptyStore
    /\ xFiles = [s \in StepSet |-> NoFile]
    /\ xRuns = <<>>

NoSave == [id |-> 0, active |-> FALSE, raised |-> FALSE,
           before |-> [i \in 1..MaxRows |-> [exists |-> FALSE]]]

\* The failing-save part of the state where only other parts are exercised.
FailIdle ==
    /\ fModel = "Profile"
    /\ fTable = [i \in 1..MaxRows |-> [exists |-> FALSE]]
    /\ fSave = NoSave

Callers == 1..NCallers
IdleCall == [pc |-> "idle", ret |-> 0, created |-> FALSE]

\* The get_settings part of the state where only other parts are exercised.
RaceIdle ==
    /\ gsStart = [i \in 1..MaxRows |-> [exists |-> FALSE]]
    /\ gsTable = [i \in 1..MaxRows |-> [exists |-> FALSE]]
    /\ gsCall = [p \in Callers |-> IdleCall]

(***************************************************************************)
(* Text.  A string is a sequence of one-character strings.  "A" and "B"    *)
(* are upper-case letters, "a", "b", "x" lower-case letters, " " a space,  *)
(* "-" a hyphen and "!" any character that is neither a word character,    *)
(* nor whitespace, nor a hyphen once the text is normalised to ASCII       *)
(* (punctuation, and every letter with no ASCII decomposition).            *)
(***************************************************************************)
Lower(c) == IF c = "A" THEN "a" ELSE IF c = "B" THEN "b" ELSE c

IsWordChar(c) == c \in {"a", "b", "x", "A", "B", "_"}

IsSeparator(c) == c \in {" ", "-"}

LowerAll(s) == [i \in 1..Len(s) |-> Lower(s[i])]

\* re.sub(r"[^\w\s-]", "", value)
KeepSlugChars(s) == SelectSeq(s, LAMBDA c : IsWordChar(c) \/ IsSeparator(c))

RECURSIVE DropSeparators(_)
DropSeparators(s) ==
    IF s # <<>> /\ IsSeparator(Head(s)) THEN DropSeparators(Tail(s)) ELSE s

\* re.sub(r"[-\s]+", "-", value)
RECURSIVE Hyphenate(_)
Hyphenate(s) ==
    IF s = <<>> THEN <<>>
    ELSE IF IsSeparator(Head(s)) THEN <<"-">> \o Hyphenate(DropSeparators(s))
    ELSE <<Head(s)>> \o Hyphenate(Tail(s))

RECURSIVE LStrip(_)
LStrip(s) == IF s # <<>> /\ Head(s) \in {"-", "_"} THEN LStrip(Tail(s)) ELSE s

RECURSIVE RStrip(_)
RStrip(s) ==
    IF s # <<>> /\ s[Len(s)] \in {"-", "_"} THEN RStrip(SubSeq(s, 1, Len(s) - 1)) ELSE s

\* django.utils.text.slugify (Django 5.0, allow_unicode=False)
slugify(s) == RStrip(LStrip(Hyphenate(KeepSlugChars(LowerAll(s)))))

(***************************************************************************)
(* Profile / SiteSettings (the "singleton" models)                         *)
(***************************************************************************)

\* A row of a singleton model.  site_title stands for the descriptive
\* fields; only is_active takes part in save().
SingletonRow(active, title) ==
    [exists |-> TRUE, is_active |-> active, site_title |-> title]

Exists(tbl, i) == tbl[i] # NoRow

ExistingIds(tbl) == {i \in Ids : Exists(tbl, i)}

ActiveIds(tbl) == {i \in Ids : Exists(tbl, i) /\ tbl[i].is_active}

\* AutoField: the key an INSERT assigns; 0 when the model's key space is used up.
FreshId(tbl) ==
    IF ExistingIds(tbl) = Ids THEN 0
    ELSE CHOOSE i \in Ids : ~Exists(tbl, i) /\ \A j \in Ids : ~Exists(tbl, j) => i <= j

\* Mutant: the filter selects nothing, so no row is deactivated.
ClearActiveNothing(tbl) == tbl

\* objects.filter(is_active=True).update(is_active=False)
ClearActive(tbl) ==
    [i \in Ids |->
        IF Exists(tbl, i) /\ tbl[i].is_active
        THEN [tbl[i] EXCEPT !.is_active = FALSE]
        ELSE tbl[i]]

\* super().save(): UPDATE the row with the instance's key, or INSERT it.
PersistRow(tbl, id, inst) == [tbl EXCEPT ![id] = inst]

\* Mutant: the row is persisted first and the active rows are cleared after.
SingletonSavePersistFirst(tbl, id, inst) ==
    IF inst.is_active THEN ClearActive(PersistRow(tbl, id, inst))
    ELSE PersistRow(tbl, id, inst)

\* Profile.save / SiteSettings.save
SingletonSave(tbl, id, inst) ==
    IF inst.is_active THEN PersistRow(ClearActive(tbl), id, inst)
    ELSE PersistRow(tbl, id, inst)

\* The instance a caller saves: a new one (id = 0) or a stored row, with the
\* caller's values for is_active and the descriptive fields.
SaveTarget(tbl, id) == IF id = 0 THEN FreshId(tbl) ELSE id

\* save() of model m on instance id (0: a new instance), as one step.  The
\* caller's descriptive fields are summed up as the site_title "custom".
SaveSingleton(m, id, active) ==
    LET tbl == singles[m]
        key == SaveTarget(tbl, id)
    IN  /\ key # 0
        /\ id # 0 => Exists(tbl, id)
        /\ singles' = [singles EXCEPT ![m] = SingletonSave(tbl, key, SingletonRow(active, "custom"))]
        /\ lastSaved' = [lastSaved EXCEPT ![m] = key]
        /\ allActive' = [allActive EXCEPT ![m] = @ /\ active]
        /\ UNCHANGED <<settingsRet, saver, exceptSingleton>>

\* The defaults of get_settings, with the lookup's is_active=True.
DefaultSettings == SingletonRow(TRUE, "Portfolio")

\* SiteSettings.get_settings: objects.get_or_create(is_active=True, defaults=...)
\* get() returns the one active row and raises MultipleObjectsReturned on
\* several; on none the default row is created through save().
GetSettings ==
    LET tbl == singles["SiteSettings"]
        act == ActiveIds(tbl)
        key == FreshId(tbl)
    IN  IF act = {}
        THEN /\ key # 0
             /\ singles' = [singles EXCEPT
                   !["SiteSettings"] = SingletonSave(tbl, key, DefaultSettings)]
             /\ lastSaved' = [lastSaved EXCEPT !["SiteSettings"] = key]
             /\ settingsRet' = [kind |-> "row", id |-> key, created |-> TRUE]
             /\ UNCHANGED <<allActive, saver, exceptSingleton>>
        ELSE /\ settingsRet' =
                   IF Cardinality(act) = 1
                   THEN [kind |-> "row", id |-> CHOOSE i \in act : TRUE, created |-> FALSE]
                   ELSE [kind |-> "MultipleObjectsReturned", id |-> 0, created |-> FALSE]
             /\ UNCHANGED <<singles, lastSaved, allActive, saver, exceptSingleton>>

NoRet == [kind |-> "none", id |-> 0, created |-> FALSE]

EmptyTable == [i \in Ids |-> NoRow]

IdleSaver == [pc |-> "idle", model |-> "Profile", id |-> 0, active |-> FALSE]

Savers == 1..NSavers

SingletonIdle ==
    /\ singles = [m \in Models |-> EmptyTable]
    /\ lastSaved = [m \in Models |-> 0]
    /\ allActive = [m \in Models |-> TRUE]
    /\ settingsRet = NoRet
    /\ saver = [p \in Savers |-> IdleSaver]

InitSingleton ==
    /\ RaceIdle
    /\ FailIdle
    /\ ExportIdle
    /\ ExpIdle
    /\ CertIdle
    /\ ListingIdle
    /\ SkillIdle
    /\ ProjIdle
    /\ ContactIdle
    /\ RefIdle
    /\ SingletonIdle
    /\ BlogIdle
    /\ SlugIdle

NextSingleton ==
    \/ \E m \in Models, id \in Ids \cup {0}, active \in BOOLEAN :
          SaveSingleton(m, id, active)
    \/ GetSettings

SpecSingleton == InitSingleton /\ [][NextSingleton]_vars


(***************************************************************************)
(* The same save(), statement by statement, run by several requests.  The  *)
(* code opens no transaction (no transaction.atomic, no ATOMIC_REQUESTS),  *)
(* so each statement commits on its own and other requests' statements may *)
(* run between the two.                                                    *)
(***************************************************************************)

\* The tables a series of saves can leave behind: keys handed out in order,
\* at most one active row.
SingletonTables ==
    {tbl \in [Ids -> {NoRow, SingletonRow(TRUE, "custom"), SingletonRow(FALSE, "custom")}] :
        /\ \A i, j \in Ids : (Exists(tbl, j) /\ i < j) => Exists(tbl, i)
        /\ Cardinality(ActiveIds(tbl)) <= 1}

\* A request builds or loads its instance and calls save().
SaveBegin(p, m, id, active) ==
    /\ saver[p].pc = "idle"
    /\ id # 0 => Exists(singles[m], id)
    /\ saver' = [saver EXCEPT ![p] = [pc |-> "clear", model |-> m, id |-> id, active |-> active]]
    /\ UNCHANGED <<singles, lastSaved, allActive, settingsRet, exceptSingleton>>

\* if self.is_active: objects.filter(is_active=True).update(is_active=False)
SaveClear(p) ==
    /\ saver[p].pc = "clear"
    /\ singles' = [singles EXCEPT ![saver[p].model] =
                      IF saver[p].active THEN ClearActive(@) ELSE @]
    /\ saver' = [saver EXCEPT ![p].pc = "persist"]
    /\ UNCHANGED <<lastSaved, allActive, settingsRet, exceptSingleton>>

\* super().save(*args, **kwargs)
SavePersist(p) ==
    LET m == saver[p].model
        key == SaveTarget(singles[m], saver[p].id)
    IN  /\ saver[p].pc = "persist"
        /\ key # 0
        /\ singles' = [singles EXCEPT ![m] =
                          PersistRow(@, key, SingletonRow(saver[p].active, "custom"))]
        /\ saver' = [saver EXCEPT ![p].pc = "done", ![p].id = key]
        /\ UNCHANGED <<lastSaved, allActive, settingsRet, exceptSingleton>>

InitSingletonConc ==
    /\ RaceIdle
    /\ FailIdle
    /\ ExportIdle
    /\ ExpIdle
    /\ CertIdle
    /\ ListingIdle
    /\ SkillIdle
    /\ ProjIdle
    /\ ContactIdle
    /\ RefIdle
    /\ singles \in [Models -> SingletonTables]
    /\ lastSaved = [m \in Models |-> 0]
    /\ allActive = [m \in Models |-> TRUE]
    /\ settingsRet = NoRet
    /\ saver = [p \in Savers |-> IdleSaver]
    /\ BlogIdle
    /\ SlugIdle

NextSingletonConc ==
    \/ \E p \in Savers, m \in Models, id \in Ids \cup {0}, active \in BOOLEAN :
          SaveBegin(p, m, id, active)
    \/ \E p \in Savers : SaveClear(p)
    \/ \E p \in Savers : SavePersist(p)

SpecSingletonConc == InitSingletonConc /\ [][NextSingletonConc]_vars


(***************************************************************************)
(* BlogPost and the blog post page                                         *)
(***************************************************************************)

Statuses == {"draft", "published", "archived"}

\* Titles an author gives a post, and the slug typed with it (<<>>: none).
PostTitles == {<<"A">>, <<"!">>}
PostSlugs == {<<>>, <<"x">>}

\* The slugs a blog post URL can carry: <slug:slug> matches one character or more.
UrlSlugs == {<<"a">>, <<"x">>}

\* published_date = None
NoDate == 0

\* A new BlogPost instance: status and title as given, the field defaults otherwise.
NewPost(title, slug, status) ==
    [exists |-> TRUE, title |-> title, slug |-> slug, status |-> status,
     published_date |-> NoDate, view_count |-> 0, updated_at |-> 0]

\* Mutant: the publish date is set on every save of a published post.
PublishDateAlways(inst, t) ==
    IF inst.status = "published" THEN t ELSE inst.published_date

\* Mutant: save() never sets the publish date.
PublishDateUnset(inst, t) == inst.published_date

\* BlogPost.save, lines 704-707: the publish date of the instance after the test.
PublishDate(inst, t) ==
    IF inst.status = "published" /\ inst.published_date = NoDate
    THEN t
    ELSE inst.published_date

\* BlogPost.save up to super().save(): the instance as save() leaves it in memory.
BlogPostPrepare(inst, t) ==
    LET slugged == IF inst.slug = <<>> THEN [inst EXCEPT !.slug = slugify(inst.title)] ELSE inst
    IN  [slugged EXCEPT !.published_date = PublishDate(slugged, t)]

\* slug = models.SlugField(unique=True): the write of inst as row id is refused.
SlugTaken(tbl, id, inst) ==
    \E j \in DOMAIN tbl : j # id /\ tbl[j] # NoRow /\ tbl[j].slug = inst.slug

\* super().save(): every field is written; updated_at is auto_now.
PostWriteAll(tbl, id, inst, t) == [tbl EXCEPT ![id] = [inst EXCEPT !.updated_at = t]]

\* Mutant: the page view writes the whole instance.
PostWriteViewCountAsAll(tbl, id, inst, t) == PostWriteAll(tbl, id, inst, t)

\* super().save(update_fields=['view_count']): only view_count is written.
PostWriteViewCount(tbl, id, inst, t) == [tbl EXCEPT ![id].view_count = inst.view_count]

FreshPostId ==
    IF \A i \in PostIds : posts[i] # NoRow THEN 0
    ELSE CHOOSE i \in PostIds : posts[i] = NoRow /\ \A j \in PostIds : posts[j] = NoRow => i <= j

\* The clock advances between requests.
Tick ==
    /\ now < MaxClock
    /\ now' = now + 1
    /\ op' = [NoOp EXCEPT !.name = "tick"]
    /\ UNCHANGED <<posts, nviews, viewer, count0, exceptBlog>>

\* save() of instance inst as row id: one INSERT or UPDATE, refused whole by
\* the unique constraint on slug.
SavePost(name, id, inst, edit) ==
    LET ready == BlogPostPrepare(inst, now)
        taken == SlugTaken(posts, id, ready)
    IN  /\ posts' = IF taken THEN posts ELSE PostWriteAll(posts, id, ready, now)
        /\ op' = [NoOp EXCEPT !.name = name, !.id = id, !.edit = edit,
                                !.res = IF taken THEN "IntegrityError" ELSE "ok"]
        /\ UNCHANGED <<now, nviews, viewer, count0, exceptBlog>>

\* BlogPost.objects.create(title=..., slug=..., status=...)
CreatePost(title, slug, status) ==
    /\ FreshPostId # 0
    /\ SavePost("create", FreshPostId, NewPost(title, slug, status), "keep")

\* The admin change form: the stored row with the author's title and status,
\* the publish date as stored ("keep") or emptied ("clear"), then save().
EditedPost(row, title, status, edit) ==
    [row EXCEPT !.title = title, !.status = status,
                !.published_date = IF edit = "clear" THEN NoDate ELSE @]

EditPost(id, title, status, edit) ==
    /\ posts[id] # NoRow
    /\ SavePost("save", id, EditedPost(posts[id], title, status, edit), edit)

\* Mutant: the queryset is not narrowed to the published posts.
AnyStatusWithSlug(tbl, slug) ==
    {i \in DOMAIN tbl : tbl[i] # NoRow /\ tbl[i].slug = slug}

\* BlogPostDetailView.get_queryset + SingleObjectMixin.get_object: the
\* published posts with the URL's slug (none: Http404).
PublishedWithSlug(tbl, slug) ==
    {i \in DOMAIN tbl : tbl[i] # NoRow /\ tbl[i].status = "published" /\ tbl[i].slug = slug}

\* obj.view_count += 1
Viewed(row) == [row EXCEPT !.view_count = @ + 1]

\* BlogPostDetailView.get_object, as one step.  failed: the UPDATE raises a
\* DatabaseError, which nothing in the view catches.
ViewPost(slug, failed) ==
    LET found == PublishedWithSlug(posts, slug)
        id == CHOOSE i \in found : TRUE
        obj == BlogPostPrepare(Viewed(posts[id]), now)
    IN  IF found = {}
        THEN /\ ~failed
             /\ op' = [NoOp EXCEPT !.name = "view", !.slug = slug, !.res = "Http404"]
             /\ UNCHANGED <<posts, now, nviews, viewer, count0, exceptBlog>>
        ELSE /\ posts[id].view_count < MaxViews
             /\ posts' = IF failed THEN posts ELSE PostWriteViewCount(posts, id, obj, now)
             /\ nviews' = IF failed THEN nviews ELSE [nviews EXCEPT ![id] = @ + 1]
             /\ op' = [NoOp EXCEPT !.name = "view", !.id = id, !.slug = slug, !.failed = failed,
                                   !.res = IF failed THEN "DatabaseError" ELSE "ok"]
             /\ UNCHANGED <<now, viewer, count0, exceptBlog>>

InitBlog ==
    /\ RaceIdle
    /\ FailIdle
    /\ ExportIdle
    /\ ExpIdle
    /\ CertIdle
    /\ ListingIdle
    /\ SkillIdle
    /\ ProjIdle
    /\ ContactIdle
    /\ RefIdle
    /\ SingletonIdle
    /\ BlogIdle
    /\ SlugIdle

NextBlog ==
    \/ Tick
    \/ \E title \in PostTitles, slug \in PostSlugs, status \in Statuses :
          CreatePost(title, slug, status)
    \/ \E id \in PostIds, title \in PostTitles, status \in Statuses, edit \in {"keep", "clear"} :
          EditPost(id, title, status, edit)
    \/ \E slug \in UrlSlugs, failed \in BOOLEAN : ViewPost(slug, failed)

SpecBlog == InitBlog /\ [][NextBlog]_vars


(***************************************************************************)
(* The same table with the bulk actions of BlogPostAdmin.  queryset.update *)
(* writes the named columns of the selected rows in one UPDATE: save() is  *)
(* not called and updated_at is not touched.                               *)
(***************************************************************************)

\* The rows the admin change list can select.
StoredPosts(tbl) == {i \in DOMAIN tbl : tbl[i] # NoRow}

\* queryset.update(status='published', published_date=timezone.now())
UpdatePublished(tbl, sel, t) ==
    [i \in DOMAIN tbl |->
        IF i \in sel THEN [tbl[i] EXCEPT !.status = "published", !.published_date = t]
        ELSE tbl[i]]

\* queryset.update(status='archived')
UpdateArchived(tbl, sel) ==
    [i \in DOMAIN tbl |-> IF i \in sel THEN [tbl[i] EXCEPT !.status = "archived"] ELSE tbl[i]]

\* BlogPostAdmin.publish_posts on the selection sel
PublishPosts(sel) ==
    /\ sel # {}
    /\ posts' = UpdatePublished(posts, sel, now)
    /\ op' = [NoOp EXCEPT !.name = "publish_posts", !.res = "ok"]
    /\ UNCHANGED <<now, nviews, viewer, count0, exceptBlog>>

\* BlogPostAdmin.archive_posts on the selection sel
ArchivePosts(sel) ==
    /\ sel # {}
    /\ posts' = UpdateArchived(posts, sel)
    /\ op' = [NoOp EXCEPT !.name = "archive_posts", !.res = "ok"]
    /\ UNCHANGED <<now, nviews, viewer, count0, exceptBlog>>

\* BlogPost.is_published
IsPublished(row) == row.status = "published" /\ row.published_date # NoDate

\* BlogListView.get_queryset: the posts the blog listing shows.
BlogListing(tbl) == {i \in StoredPosts(tbl) : tbl[i].status = "published"}

NextBlogAdmin ==
    \/ Tick
    \/ \E slug \in PostSlugs, status \in Statuses : CreatePost(<<"A">>, slug, status)
    \/ \E id \in PostIds, status \in Statuses, edit \in {"keep", "clear"} :
          EditPost(id, <<"A">>, status, edit)
    \/ \E slug \in UrlSlugs : ViewPost(slug, FALSE)
    \/ \E sel \in SUBSET StoredPosts(posts) : PublishPosts(sel)
    \/ \E sel \in SUBSET StoredPosts(posts) : ArchivePosts(sel)

SpecBlogAdmin == InitBlog /\ [][NextBlogAdmin]_vars


(***************************************************************************)
(* The blog post page, statement by statement, requested by several        *)
(* clients at once.  get_object reads the row, raises the count on the     *)
(* instance in memory and writes the instance's view_count back; the view  *)
(* opens no transaction and takes no lock.                                 *)
(***************************************************************************)

\* A stored post as a series of saves leaves it.
StoredPost(title, slug, status, views) ==
    [exists |-> TRUE, title |-> title, slug |-> slug, status |-> status,
     published_date |-> IF status = "published" THEN 1 ELSE NoDate,
     view_count |-> views, updated_at |-> 1]

\* obj = super().get_object()
ViewLoad(p, slug) ==
    LET found == PublishedWithSlug(posts, slug)
        id == CHOOSE i \in found : TRUE
    IN  /\ viewer[p].pc = "idle"
        /\ viewer' = [viewer EXCEPT ![p] =
                         IF found = {}
                         THEN [pc |-> "done", id |-> 0, obj |-> NoRow, res |-> "Http404"]
                         ELSE [pc |-> "loaded", id |-> id, obj |-> posts[id], res |-> "none"]]
        /\ UNCHANGED <<posts, now, op, nviews, count0, exceptBlog>>

\* obj.view_count += 1; obj.save(update_fields=['view_count']); return obj
ViewStore(p) ==
    LET obj == BlogPostPrepare(Viewed(viewer[p].obj), now)
    IN  /\ viewer[p].pc = "loaded"
        /\ posts' = PostWriteViewCount(posts, viewer[p].id, obj, now)
        /\ viewer' = [viewer EXCEPT ![p] = [pc |-> "done", id |-> @.id, obj |-> obj, res |-> "ok"]]
        /\ UNCHANGED <<now, op, nviews, count0, exceptBlog>>

InitBlogConc ==
    /\ RaceIdle
    /\ FailIdle
    /\ ExportIdle
    /\ ExpIdle
    /\ CertIdle
    /\ ListingIdle
    /\ SkillIdle
    /\ ProjIdle
    /\ ContactIdle
    /\ RefIdle
    /\ SingletonIdle
    /\ SlugIdle
    /\ \E c1, c2 \in 0..1, st \in Statuses, two \in BOOLEAN :
          posts = [i \in PostIds |->
                      IF i = 1 THEN StoredPost(<<"A">>, <<"a">>, "published", c1)
                      ELSE IF i = 2 /\ two THEN StoredPost(<<"!">>, <<"x">>, st, c2)
                      ELSE NoRow]
    /\ count0 = [i \in PostIds |-> IF posts[i] = NoRow THEN 0 ELSE posts[i].view_count]
    /\ now = 1
    /\ op = NoOp
    /\ nviews = [i \in PostIds |-> 0]
    /\ viewer = [p \in Viewers |-> IdleViewer]

NextBlogConc ==
    \/ \E p \in Viewers, slug \in UrlSlugs : ViewLoad(p, slug)
    \/ \E p \in Viewers : ViewStore(p)

SpecBlogConc == InitBlogConc /\ [][NextBlogConc]_vars


(***************************************************************************)
(* The slug-carrying models: SkillArea, Skill, ProjectCategory, Project,   *)
(* BlogSeries, BlogCategory, BlogTag and BlogPost.  Their save() methods   *)
(* differ only in the text the slug is derived from, their tables only in  *)
(* the unique constraints.  A behaviour exercises the table of one model   *)
(* (kind); for Skill, the SkillArea table it refers to is areas.           *)
(***************************************************************************)

\* Names and titles given to rows, and the slug typed with them (<<>>: none).
EntNames == {<<"A">>, <<"A", "!">>, <<"!">>, <<"A", " ", "B">>}
EntSlugs == {<<>>, <<"x">>, <<"y">>}
AreaNames == {<<"A">>, <<"!">>}

\* A row: name stands for name or title; area is the Skill's SkillArea key (0: none).
EntRow(name, slug, area) == [exists |-> TRUE, name |-> name, slug |-> slug, area |-> area]

\* name = models.CharField(..., unique=True)
NameUnique(k) == k \in {"SkillArea", "ProjectCategory", "BlogCategory", "BlogTag"}

\* The text save() hands to slugify: f"{self.area.name}-{self.name}" for a
\* Skill, the name or title otherwise.
SlugSource(k, inst, areaTbl) ==
    IF k = "Skill" THEN areaTbl[inst.area].name \o <<"-">> \o inst.name ELSE inst.name

\* save() up to super().save(): if not self.slug: self.slug = slugify(...)
EntPrepare(k, inst, areaTbl) ==
    IF inst.slug = <<>>
    THEN [inst EXCEPT !.slug = slugify(SlugSource(k, inst, areaTbl))]
    ELSE inst

\* The unique constraints of model k refuse the write of inst as row id:
\* slug (unique=True), name (unique=True), Skill's unique_together.
UniqueViolation(k, tbl, id, inst) ==
    \E j \in DOMAIN tbl :
        /\ j # id
        /\ tbl[j] # NoRow
        /\ \/ tbl[j].slug = inst.slug
           \/ NameUnique(k) /\ tbl[j].name = inst.name
           \/ k = "Skill" /\ tbl[j].area = inst.area /\ tbl[j].name = inst.name

FreshKey(tbl) ==
    IF \A i \in DOMAIN tbl : tbl[i] # NoRow THEN 0
    ELSE CHOOSE i \in DOMAIN tbl : tbl[i] = NoRow /\ \A j \in DOMAIN tbl : tbl[j] = NoRow => i <= j

\* save() of instance inst as row id of ents: one INSERT or UPDATE, refused
\* whole (IntegrityError) by a unique constraint.
WriteEnt(name, id, inst) ==
    LET ready == EntPrepare(kind, inst, areas)
        refused == UniqueViolation(kind, ents, id, ready)
    IN  /\ ents' = IF refused THEN ents ELSE [ents EXCEPT ![id] = ready]
        /\ born' = IF name = "create" /\ ~refused
                   THEN [born EXCEPT ![id] = [auto |-> inst.slug = <<>>,
                                              text |-> SlugSource(kind, inst, areas)]]
                   ELSE born
        /\ wr' = [name |-> name, table |-> "ents", id |-> id, inst |-> ready,
                  res |-> IF refused THEN "IntegrityError" ELSE "ok"]
        /\ UNCHANGED <<kind, areas, exceptSlug>>

\* objects.create(name=..., slug=..., area=...)
CreateEnt(name, slug, area) ==
    /\ FreshKey(ents) # 0
    /\ IF kind = "Skill" THEN area \in AreaIds /\ areas[area] # NoRow ELSE area = 0
    /\ WriteEnt("create", FreshKey(ents), EntRow(name, slug, area))

\* A stored row, renamed, saved.
SaveEnt(id, name) ==
    /\ ents[id] # NoRow
    /\ WriteEnt("save", id, [ents[id] EXCEPT !.name = name])

\* save() of a SkillArea beside the Skill table.
WriteArea(name, id, inst) ==
    LET ready == EntPrepare("SkillArea", inst, areas)
        refused == UniqueViolation("SkillArea", areas, id, ready)
    IN  /\ kind = "Skill"
        /\ areas' = IF refused THEN areas ELSE [areas EXCEPT ![id] = ready]
        /\ wr' = [name |-> name, table |-> "areas", id |-> id, inst |-> ready,
                  res |-> IF refused THEN "IntegrityError" ELSE "ok"]
        /\ UNCHANGED <<kind, ents, born, exceptSlug>>

CreateArea(name) ==
    /\ FreshKey(areas) # 0
    /\ WriteArea("create", FreshKey(areas), EntRow(name, <<>>, 0))

SaveArea(id, name) ==
    /\ areas[id] # NoRow
    /\ WriteArea("save", id, [areas[id] EXCEPT !.name = name])

InitSlug ==
    /\ RaceIdle
    /\ FailIdle
    /\ ExportIdle
    /\ ExpIdle
    /\ CertIdle
    /\ ListingIdle
    /\ SkillIdle
    /\ ProjIdle
    /\ ContactIdle
    /\ RefIdle
    /\ SingletonIdle
    /\ BlogIdle
    /\ kind \in Kinds
    /\ ents = [i \in EntIds |-> NoRow]
    /\ areas = [i \in AreaIds |-> NoRow]
    /\ born = [i \in EntIds |-> NotBorn]
    /\ wr = NoWrite

NextSlug ==
    \/ \E name \in EntNames, slug \in EntSlugs, area \in AreaIds \cup {0} :
          CreateEnt(name, slug, area)
    \/ \E id \in EntIds, name \in EntNames : SaveEnt(id, name)
    \/ \E name \in AreaNames : CreateArea(name)
    \/ \E id \in AreaIds, name \in AreaNames : SaveArea(id, name)

SpecSlug == InitSlug /\ [][NextSlug]_vars

(***************************************************************************)
(* The foreign keys and their on_delete: SpecRef                           *)
(***************************************************************************)

ChildRow(ref) == [exists |-> TRUE, ref |-> ref]

ParentRow == [exists |-> TRUE]

\* The rows of tbl whose key holds p.
Referring(tbl, p) == {c \in DOMAIN tbl : tbl[c] # NoRow /\ tbl[c].ref = p}

\* A delete that leaves the referring table alone.
OnDeleteNothing(r, tbl, p) == tbl

\* What deleting row p of the referenced table does to the referring table:
\* on_delete=models.CASCADE deletes the referring rows, on_delete=
\* models.SET_NULL writes NULL into their key.
OnDelete(r, tbl, p) ==
    [c \in DOMAIN tbl |->
        IF c \in Referring(tbl, p)
        THEN IF r.on_delete = "CASCADE" THEN NoRow ELSE [tbl[c] EXCEPT !.ref = NullRef]
        ELSE tbl[c]]

\* The key value ref cannot be stored: NULL in a column without null=True,
\* or the key of no row.
KeyRefused(r, ptbl, ref) ==
    IF ref = NullRef THEN ~r.null ELSE ptbl[ref] = NoRow

\* objects.create() of the referenced model.
CreateParent ==
    /\ FreshKey(parents) # 0
    /\ parents' = [parents EXCEPT ![FreshKey(parents)] = ParentRow]
    /\ del' = [name |-> "create_parent", id |-> FreshKey(parents), kids |-> {}, res |-> "ok"]
    /\ UNCHANGED <<rel, children, exceptRef>>

\* objects.create(<key>=ref) of the referring model.
CreateChild(ref) ==
    LET id == FreshKey(children)
        refused == KeyRefused(rel, parents, ref)
    IN  /\ id # 0
        /\ children' = IF refused THEN children ELSE [children EXCEPT ![id] = ChildRow(ref)]
        /\ del' = [name |-> "create_child", id |-> id, kids |-> {},
                   res |-> IF refused THEN "IntegrityError" ELSE "ok"]
        /\ UNCHANGED <<rel, parents, exceptRef>>

\* instance.delete() on a row of the referenced model.
DeleteParent(p) ==
    /\ parents[p] # NoRow
    /\ parents' = [parents EXCEPT ![p] = NoRow]
    /\ children' = OnDelete(rel, children, p)
    /\ del' = [name |-> "delete_parent", id |-> p, kids |-> Referring(children, p), res |-> "ok"]
    /\ UNCHANGED <<rel, exceptRef>>

\* instance.delete() on a row of the referring model.
DeleteChild(c) ==
    /\ children[c] # NoRow
    /\ children' = [children EXCEPT ![c] = NoRow]
    /\ del' = [name |-> "delete_child", id |-> c, kids |-> {}, res |-> "ok"]
    /\ UNCHANGED <<rel, parents, exceptRef>>

InitRef ==
    /\ RaceIdle
    /\ FailIdle
    /\ ExportIdle
    /\ ExpIdle
    /\ CertIdle
    /\ ListingIdle
    /\ SkillIdle
    /\ ProjIdle
    /\ ContactIdle
    /\ SingletonIdle
    /\ BlogIdle
    /\ SlugIdle
    /\ rel \in Relations
    /\ parents = [i \in ParentIds |-> NoRow]
    /\ children = [i \in ChildIds |-> NoRow]
    /\ del = NoDel

NextRef ==
    \/ CreateParent
    \/ \E ref \in ParentIds \cup {NullRef} : CreateChild(ref)
    \/ \E p \in ParentIds : DeleteParent(p)
    \/ \E c \in ChildIds : DeleteChild(c)

SpecRef == InitRef /\ [][NextRef]_vars

(***************************************************************************)
(* get_settings called while other requests save: SpecSettingsConc         *)
(***************************************************************************)

NextSettingsConc ==
    \/ NextSingletonConc
    \/ GetSettings

SpecSettingsConc == InitSingletonConc /\ [][NextSettingsConc]_vars

(***************************************************************************)
(* The contact form: SpecContact, SpecContactRate                          *)
(***************************************************************************)

\* max_length of ContactMessage.name and ContactMessage.subject
NameMax == 200

\* max_length of an EmailField
EmailMax == 254

\* The slice bound of user_agent in form_valid
AgentMax == 500

Rep(c, n) == [i \in 1..n |-> c]

RECURSIVE StripLeft(_)
StripLeft(s) == IF s # <<>> /\ Head(s) = " " THEN StripLeft(Tail(s)) ELSE s

RECURSIVE StripRight(_)
StripRight(s) ==
    IF s # <<>> /\ s[Len(s)] = " " THEN StripRight(SubSeq(s, 1, Len(s) - 1)) ELSE s

\* A form's CharField cleans its value with str.strip().
Strip(s) == StripRight(StripLeft(s))

\* The position of the last "@" of s, 0 when there is none.
LastAt(s) ==
    IF \E i \in 1..Len(s) : s[i] = "@"
    THEN CHOOSE i \in 1..Len(s) : s[i] = "@" /\ \A j \in (i + 1)..Len(s) : s[j] # "@"
    ELSE 0

\* Letters and dots, no dot first, last or next to another dot.
DotAtom(s) ==
    /\ s # <<>>
    /\ \A i \in 1..Len(s) : s[i] \in {"u", "d", "c", "."}
    /\ s[1] # "." /\ s[Len(s)] # "."
    /\ \A i \in 1..(Len(s) - 1) : ~(s[i] = "." /\ s[i + 1] = ".")

\* The EmailField's validator: user@domain, the user part a dot-atom, the
\* domain dotted labels ending in a label of two letters or more.
IsEmail(s) ==
    LET k == LastAt(s)
        user == SubSeq(s, 1, k - 1)
        domain == SubSeq(s, k + 1, Len(s))
    IN  /\ k # 0
        /\ DotAtom(user)
        /\ DotAtom(domain)
        /\ \E i \in 1..Len(domain) : domain[i] = "."
        /\ Len(domain) >= 3 /\ domain[Len(domain) - 1] # "."

ContactFields == {"name", "email", "subject", "message"}

\* The length a field's value may have (TextField: no limit).
FieldFits(f, v) ==
    CASE f = "email" -> Len(v) <= EmailMax
      [] f = "message" -> TRUE
      [] OTHER -> Len(v) <= NameMax

\* Mutant: validation stops at the first field in error.
ContactErrorsFirstOnly(post) ==
    IF Strip(post.name) = <<>> THEN {"name"}
    ELSE IF Strip(post.email) = <<>> \/ ~IsEmail(Strip(post.email)) THEN {"email"}
    ELSE IF Strip(post.subject) = <<>> THEN {"subject"}
    ELSE IF Strip(post.message) = <<>> THEN {"message"}
    ELSE {}

\* ContactForm(data).errors: every field is required, cleaned and validated
\* on its own, and the fields in error are collected.
ContactErrors(post) ==
    {f \in ContactFields :
        \/ Strip(post[f]) = <<>>
        \/ ~FieldFits(f, Strip(post[f]))
        \/ f = "email" /\ ~IsEmail(Strip(post[f]))}

\* form.cleaned_data
CleanedData(post) == [f \in ContactFields |-> Strip(post[f])]

\* x_forwarded_for.split(',')[0]
RECURSIVE FirstEntry(_)
FirstEntry(s) ==
    IF s = <<>> \/ Head(s) = "," THEN <<>> ELSE <<Head(s)>> \o FirstEntry(Tail(s))

\* Mutant: the forwarding header is ignored.
GetClientIpRemoteOnly(meta) == meta.REMOTE_ADDR

\* ContactView.get_client_ip
GetClientIp(meta) ==
    IF "HTTP_X_FORWARDED_FOR" \in DOMAIN meta /\ meta.HTTP_X_FORWARDED_FOR # <<>>
    THEN FirstEntry(meta.HTTP_X_FORWARDED_FOR)
    ELSE meta.REMOTE_ADDR

\* self.request.META.get('HTTP_USER_AGENT', '')[:500]
UserAgent(meta) ==
    LET ua == IF "HTTP_USER_AGENT" \in DOMAIN meta THEN meta.HTTP_USER_AGENT ELSE <<>>
    IN  SubSeq(ua, 1, IF Len(ua) < AgentMax THEN Len(ua) ELSE AgentMax)

\* The row form_valid saves: the cleaned fields, the default status, the
\* address and the agent, created_at from auto_now_add.
ContactRow(post, meta, t) ==
    [name |-> CleanedData(post).name, email |-> CleanedData(post).email,
     subject |-> CleanedData(post).subject, message |-> CleanedData(post).message,
     status |-> "new", ip_address |-> GetClientIp(meta), user_agent |-> UserAgent(meta),
     created_at |-> t]

\* POST /contact/: FormView.post validates the form, then form_valid or
\* form_invalid.
SubmitContact(post, meta) ==
    LET errors == ContactErrors(post)
    IN  /\ msgs' = IF errors = {} THEN Append(msgs, ContactRow(post, meta, ctime)) ELSE msgs
        /\ sub' = [post |-> post, meta |-> meta, errors |-> errors,
                   res |-> IF errors = {} THEN "saved" ELSE "invalid"]
        /\ UNCHANGED <<ctime, exceptContact>>

\* Time passes between two submissions.
TickContact ==
    /\ ctime < MaxTime
    /\ ctime' = ctime + 1
    /\ UNCHANGED <<msgs, sub, exceptContact>>

PostNames == {<<>>, <<"A">>, <<" ", "A">>}
PostEmails == {<<>>, <<"u", "@", "d", ".", "c", "c">>, <<"u", "@", "d">>,
               <<" ", "u", "@", "d", ".", "c", "c">>}
PostSubjects == {<<>>, <<"S">>}
PostMessages == {<<>>, <<"M">>}

Posts ==
    [name : PostNames, email : PostEmails, subject : PostSubjects, message : PostMessages]

Agents == {<<"m">>, Rep("m", AgentMax + 1)}

\* The request headers: REMOTE_ADDR always, the forwarding header and the
\* agent header when the client or a proxy sent them.
Metas ==
    {[REMOTE_ADDR |-> <<"9">>],
     [REMOTE_ADDR |-> <<"9">>, HTTP_X_FORWARDED_FOR |-> <<"1", ",", "2">>]}
    \cup {[REMOTE_ADDR |-> <<"9">>, HTTP_USER_AGENT |-> a] : a \in Agents}
    \cup {[REMOTE_ADDR |-> <<"9">>, HTTP_X_FORWARDED_FOR |-> <<"1", ",", "2">>,
           HTTP_USER_AGENT |-> a] : a \in Agents}

InitContact ==
    /\ RaceIdle
    /\ FailIdle
    /\ ExportIdle
    /\ ExpIdle
    /\ CertIdle
    /\ ListingIdle
    /\ SkillIdle
    /\ ProjIdle
    /\ SingletonIdle
    /\ BlogIdle
    /\ SlugIdle
    /\ RefIdle
    /\ ContactIdle

NextContact ==
    \E post \in Posts, meta \in Metas : Len(msgs) < MaxMsgs /\ SubmitContact(post, meta)

SpecContact == InitContact /\ [][NextContact]_vars

\* A well-formed submission, as one client sends it over and over.
GoodPost ==
    [name |-> <<"A">>, email |-> <<"u", "@", "d", ".", "c", "c">>,
     subject |-> <<"S">>, message |-> <<"M">>]

Sources == {[REMOTE_ADDR |-> <<"9">>], [REMOTE_ADDR |-> <<"8">>]}

NextContactRate ==
    \/ \E meta \in Sources : Len(msgs) < MaxBurst /\ SubmitContact(GoodPost, meta)
    \/ TickContact

SpecContactRate == InitContact /\ [][NextContactRate]_vars

(***************************************************************************)
(* The projects listing: SpecProjects                                      *)
(***************************************************************************)

\* The ProjectCategory table the projects refer to.
ProjCats == <<[slug |-> <<"x">>], [slug |-> <<"y">>]>>

ProjRow(title, situation, action, category) ==
    [exists |-> TRUE, title |-> title, situation |-> situation, task |-> <<"a", "a">>,
     action |-> action, result |-> <<"b", "b">>, category |-> category]

ProjRows ==
    {ProjRow(t, s, a, c) : t \in {<<"A", "b">>, <<"x">>}, s \in {<<"b", "A">>, <<"x">>},
                           a \in {<<"A">>, <<"x">>}, c \in {NullRef} \cup DOMAIN ProjCats}

\* text LIKE %q%, both folded to one case
IContains(text, q) ==
    \E i \in 1..(Len(text) + 1) :
        /\ i + Len(q) - 1 <= Len(text)
        /\ LowerAll(SubSeq(text, i, i + Len(q) - 1)) = LowerAll(q)

\* request.GET.get(key) is there and is not empty: "if category:", "if search:"
Given(get, key) == key \in DOMAIN get /\ get[key] # <<>>

\* Mutant: the search reads every text field of the project.
SearchAllFields(row, search) ==
    \/ IContains(row.title, search)
    \/ IContains(row.situation, search)
    \/ IContains(row.task, search)
    \/ IContains(row.action, search)
    \/ IContains(row.result, search)

\* Q(title__icontains=search) | Q(situation__icontains=search) | Q(action__icontains=search)
Search(row, search) ==
    \/ IContains(row.title, search)
    \/ IContains(row.situation, search)
    \/ IContains(row.action, search)

\* qs.filter(category__slug=category): the join drops a project without
\* category.
InCategory(row, category) ==
    /\ row.category # NullRef
    /\ ProjCats[row.category].slug = category

\* ProjectsListView.get_queryset
ProjectsQueryset(tbl, get) ==
    LET qs0 == {i \in DOMAIN tbl : tbl[i] # NoRow}
        qs1 == IF Given(get, "category")
               THEN {i \in qs0 : InCategory(tbl[i], get.category)}
               ELSE qs0
        qs2 == IF Given(get, "q") THEN {i \in qs1 : Search(tbl[i], get.q)} ELSE qs1
    IN  qs2

ProjSearches == {<<>>, <<"a">>, <<"a", "B">>, <<"a", "a">>, <<"b", "b">>}
ProjSlugs == {<<>>, <<"x">>, <<"z">>}

ProjGets ==
    {NoGet} \cup {[q |-> s] : s \in ProjSearches} \cup {[category |-> c] : c \in ProjSlugs}
    \cup {[q |-> s, category |-> c] : s \in ProjSearches, c \in ProjSlugs}

\* GET /projects/?category=...&q=...
ListProjects(get) ==
    /\ projGet' = get
    /\ projList' = ProjectsQueryset(projTable, get)
    /\ UNCHANGED <<projTable, exceptProj>>

InitProjects ==
    /\ RaceIdle
    /\ FailIdle
    /\ ExportIdle
    /\ ExpIdle
    /\ CertIdle
    /\ ListingIdle
    /\ SkillIdle
    /\ SingletonIdle
    /\ BlogIdle
    /\ SlugIdle
    /\ RefIdle
    /\ ContactIdle
    /\ projTable \in [ProjIds -> ProjRows \cup {NoRow}]
    /\ projGet = NoGet
    /\ projList = {}

NextProjects == \E get \in ProjGets : ListProjects(get)

SpecProjects == InitProjects /\ [][NextProjects]_vars

(***************************************************************************)
(* The skills listing: SpecSkills                                          *)
(***************************************************************************)

\* The place of a character in the collation.
CharRank(c) == CASE c = "A" -> 1 [] c = "B" -> 2 [] OTHER -> 3

\* s sorts before t: s is a proper prefix of t or has the lesser character
\* where they first differ.
RECURSIVE TextBefore(_, _)
TextBefore(s, t) ==
    IF t = <<>> THEN FALSE
    ELSE IF s = <<>> THEN TRUE
    ELSE IF Head(s) = Head(t) THEN TextBefore(Tail(s), Tail(t))
    ELSE CharRank(Head(s)) < CharRank(Head(t))

\* SkillArea.Meta.ordering = ['order', 'name']
AreaBefore(a, b) ==
    \/ a.order < b.order
    \/ a.order = b.order /\ TextBefore(a.name, b.name)

\* Mutant: the manual order of a skill is not read.
SkillBeforeNoOrder(areaTbl, a, b) ==
    \/ AreaBefore(areaTbl[a.area], areaTbl[b.area])
    \/ a.area = b.area /\ TextBefore(a.name, b.name)

\* Skill.Meta.ordering = ['area', 'order', 'name']: the foreign key sorts
\* by the ordering of SkillArea.
SkillBefore(areaTbl, a, b) ==
    \/ AreaBefore(areaTbl[a.area], areaTbl[b.area])
    \/ a.area = b.area /\ a.order < b.order
    \/ a.area = b.area /\ a.order = b.order /\ TextBefore(a.name, b.name)

\* The rows ids of tbl in the order of Skill.Meta.ordering.
RECURSIVE SkillsOrdered(_, _, _)
SkillsOrdered(tbl, areaTbl, ids) ==
    IF ids = {} THEN <<>>
    ELSE LET first == CHOOSE i \in ids :
                         \A j \in ids \ {i} : SkillBefore(areaTbl, tbl[i], tbl[j])
         IN  <<first>> \o SkillsOrdered(tbl, areaTbl, ids \ {first})

\* SkillsListView.get_queryset
SkillsQueryset(tbl, areaTbl, get) ==
    LET qs0 == {i \in DOMAIN tbl : tbl[i] # NoRow}
        qs1 == IF Given(get, "level") THEN {i \in qs0 : tbl[i].sfia_level = get.level} ELSE qs0
        qs2 == IF Given(get, "sector") THEN {i \in qs1 : tbl[i].sector = get.sector} ELSE qs1
        qs3 == IF Given(get, "area")
               THEN {i \in qs2 : areaTbl[tbl[i].area].slug = get.area}
               ELSE qs2
    IN  SkillsOrdered(tbl, areaTbl, qs3)

\* The area and the name of the skill with key i: no two skills of an area
\* share a name (unique_together).
SkillAreaOf(i) == IF i % 2 = 1 THEN 1 ELSE 2
SkillNameOf(i) == IF ((i - 1) \div 2) % 2 = 0 THEN Rep("A", 1 + (i - 1) \div 4)
                  ELSE Rep("B", 1 + (i - 1) \div 4)

SkillLevels == {<<"L", "1">>, <<"L", "2">>}
SkillSectors == {<<"o", "t", "h", "e", "r">>, <<"b", "a", "n", "k", "i", "n", "g">>}

SkillRows(i) ==
    {[exists |-> TRUE, name |-> SkillNameOf(i), area |-> SkillAreaOf(i), order |-> o,
      sfia_level |-> l, sector |-> s] : o \in {0, 1}, l \in SkillLevels, s \in SkillSectors}

SkillGets ==
    {g \in UNION {[d -> {<<>>, <<"L", "1">>, <<"o", "t", "h", "e", "r">>, <<"x">>, <<"z">>}] :
                     d \in SUBSET {"level", "sector", "area"}} :
        /\ "level" \in DOMAIN g => g.level \in {<<>>, <<"L", "1">>}
        /\ "sector" \in DOMAIN g => g.sector \in {<<"o", "t", "h", "e", "r">>}
        /\ "area" \in DOMAIN g => g.area \in {<<"x">>, <<"z">>}}

\* GET /skills/?level=...&sector=...&area=...
ListSkills(get) ==
    /\ skillGet' = get
    /\ skillList' = SkillsQueryset(skillTable, skillAreas, get)
    /\ UNCHANGED <<skillTable, skillAreas, exceptSkill>>

InitSkills ==
    /\ RaceIdle
    /\ FailIdle
    /\ ExportIdle
    /\ ExpIdle
    /\ CertIdle
    /\ ListingIdle
    /\ SingletonIdle
    /\ BlogIdle
    /\ SlugIdle
    /\ RefIdle
    /\ ContactIdle
    /\ ProjIdle
    /\ skillTable \in {t \in [SkillIds -> UNION {SkillRows(i) : i \in SkillIds} \cup {NoRow}] :
                          \A i \in SkillIds : t[i] \in SkillRows(i) \cup {NoRow}}
    /\ skillAreas \in {t \in [SkillAreaIds -> {AreaRow(n, s, o) : n \in {<<"A">>, <<"B">>},
                                                  s \in {<<"x">>, <<"y">>}, o \in {0, 1}}] :
                          /\ t[1].name = <<"B">> /\ t[1].slug = <<"x">>
                          /\ t[2].name = <<"A">> /\ t[2].slug = <<"y">>}
    /\ skillGet = NoGet
    /\ skillList = <<>>

NextSkills == \E get \in SkillGets : ListSkills(get)

SpecSkills == InitSkills /\ [][NextSkills]_vars

(***************************************************************************)
(* The blog listing: SpecListing                                           *)
(***************************************************************************)

\* paginate_by of BlogListView
PageSize == 10

\* A post of the listing's table.  The key stands for created_at: rows are
\* created one after the other.
ListedPost(i, status, date) ==
    [exists |-> TRUE, status |-> status, published_date |-> date, created_at |-> i]

\* Mutant: the oldest post comes first.
BlogBeforeAscending(a, b) ==
    \/ a.published_date < b.published_date
    \/ a.published_date = b.published_date /\ a.created_at < b.created_at

\* BlogPost.Meta.ordering = ['-published_date', '-created_at']
BlogBefore(a, b) ==
    \/ a.published_date > b.published_date
    \/ a.published_date = b.published_date /\ a.created_at > b.created_at

RECURSIVE BlogOrdered(_, _)
BlogOrdered(tbl, ids) ==
    IF ids = {} THEN <<>>
    ELSE LET first == CHOOSE i \in ids : \A j \in ids \ {i} : BlogBefore(tbl[i], tbl[j])
         IN  <<first>> \o BlogOrdered(tbl, ids \ {first})

\* BlogListView.get_queryset, in the model's default ordering
BlogQueryset(tbl) ==
    BlogOrdered(tbl, {i \in DOMAIN tbl : tbl[i] # NoRow /\ tbl[i].status = "published"})

\* Paginator.num_pages: an empty listing has one (empty) page.
NumPages(n) == IF n = 0 THEN 1 ELSE (n + PageSize - 1) \div PageSize

\* GET /blog/?page=p: the p-th slice of the queryset, Http404 past the end.
BlogPage(tbl, p) ==
    LET qs == BlogQueryset(tbl)
        last == IF p * PageSize < Len(qs) THEN p * PageSize ELSE Len(qs)
    IN  IF p > NumPages(Len(qs)) THEN [res |-> "Http404", objs |-> <<>>]
        ELSE [res |-> "ok", objs |-> SubSeq(qs, (p - 1) * PageSize + 1, last)]

ListBlog(p) ==
    /\ blogPages' = [blogPages EXCEPT ![p] = BlogPage(blogTable, p)]
    /\ UNCHANGED <<blogTable, exceptListing>>

\* The table of n posts, the first FreePosts of them with the status and the
\* date free gives them, the later ones published on alternating dates.
ListedTable(n, free) ==
    [i \in ListedIds |->
        IF i > n THEN NoRow
        ELSE IF i <= FreePosts THEN ListedPost(i, free[i][1], free[i][2])
        ELSE ListedPost(i, "published", 1 + (i % 2))]

ListedTables ==
    {ListedTable(n, free) : n \in 0..MaxListed, free \in [1..FreePosts -> Statuses \X {1, 2}]}

InitListing ==
    /\ RaceIdle
    /\ FailIdle
    /\ ExportIdle
    /\ ExpIdle
    /\ CertIdle
    /\ SingletonIdle
    /\ BlogIdle
    /\ SlugIdle
    /\ RefIdle
    /\ ContactIdle
    /\ ProjIdle
    /\ SkillIdle
    /\ blogTable \in ListedTables
    /\ blogPages = [p \in PageNos |-> NotFetched]

NextListing == \E p \in PageNos : ListBlog(p)

SpecListing == InitListing /\ [][NextListing]_vars

(***************************************************************************)
(* Certification.is_expired: SpecCert                                      *)
(***************************************************************************)

\* A certification row; expiry_date is NoDate (NULL) or a day.
CertRow(expiry) == [exists |-> TRUE, expiry_date |-> expiry]

\* Mutant: a certification expires on its expiry_date.
IsExpiredOnTheDay(row, day) ==
    IF row.expiry_date = NoDate THEN FALSE ELSE row.expiry_date <= day

\* Certification.is_expired
IsExpired(row, day) ==
    IF row.expiry_date = NoDate THEN FALSE ELSE row.expiry_date < day

\* Certification.objects.create(expiry_date=...)
CreateCert(expiry) ==
    /\ FreshKey(certTable) # 0
    /\ certTable' = [certTable EXCEPT ![FreshKey(certTable)] = CertRow(expiry)]
    /\ UNCHANGED <<today, certRead, exceptCert>>

\* A day passes.
NextDay ==
    /\ today < MaxDay
    /\ today' = today + 1
    /\ UNCHANGED <<certTable, certRead, exceptCert>>

\* obj.is_expired, as the admin's expiry_status and the templates read it.
ReadIsExpired(id) ==
    /\ certTable[id] # NoRow
    /\ certRead' = [id |-> id, day |-> today, value |-> IsExpired(certTable[id], today)]
    /\ UNCHANGED <<certTable, today, exceptCert>>

InitCert ==
    /\ RaceIdle
    /\ FailIdle
    /\ ExportIdle
    /\ ExpIdle
    /\ SingletonIdle
    /\ BlogIdle
    /\ SlugIdle
    /\ RefIdle
    /\ ContactIdle
    /\ ProjIdle
    /\ SkillIdle
    /\ ListingIdle
    /\ CertIdle

NextCert ==
    \/ \E expiry \in Days \cup {NoDate} : CreateCert(expiry)
    \/ NextDay
    \/ \E id \in CertIds : ReadIsExpired(id)

SpecCert == InitCert /\ [][NextCert]_vars

(***************************************************************************)
(* Experience.duration (models.py) and ExperienceAdmin.duration_display    *)
(* (admin.py).  An outcome is the returned text or the exception raised.   *)
(***************************************************************************)
Returned(text) == [raised |-> "none", text |-> text]
Raised(exc) == [raised |-> exc, text |-> ""]

\* models.py binds the name timezone to datetime.timezone, which has no
\* attribute now.
TimezoneNow == Raised("AttributeError")

\* models.py never binds the name relativedelta.
Relativedelta(end, start) == Raised("NameError")

\* The text built from delta.years and delta.months.
DurationParts(years, months) ==
    LET yr == IF years > 0
              THEN <<ToString(years) \o " yr" \o (IF years > 1 THEN "s" ELSE "")>>
              ELSE <<>>
        mo == IF months > 0
              THEN <<ToString(months) \o " mo" \o (IF months > 1 THEN "s" ELSE "")>>
              ELSE <<>>
        parts == yr \o mo
    IN  IF parts = <<>> THEN "Less than 1 month"
        ELSE IF Len(parts) = 1 THEN parts[1]
        ELSE parts[1] \o " " \o parts[2]

Duration(row) ==
    LET end == IF row.end_date # NoDate THEN Returned("") ELSE TimezoneNow
    IN  IF end.raised # "none" THEN Raised(end.raised)
        ELSE LET delta == Relativedelta(row.end_date, row.start_date)
             IN  IF delta.raised # "none" THEN Raised(delta.raised)
                 ELSE Returned(DurationParts(delta.years, delta.months))

DurationDisplay(row) ==
    LET d == Duration(row)
    IN  IF d.raised # "none" THEN Returned("-") ELSE d

SaveExperience(start, end) ==
    /\ expRow' = [exists |-> TRUE, start_date |-> start, end_date |-> end]
    /\ expRead' = NoDuration
    /\ UNCHANGED <<expToday, exceptExp>>

ReadDuration ==
    /\ expRow.exists
    /\ expRead' = [via |-> "duration"] @@ Duration(expRow)
    /\ UNCHANGED <<expRow, expToday, exceptExp>>

ReadDurationDisplay ==
    /\ expRow.exists
    /\ expRead' = [via |-> "duration_display"] @@ DurationDisplay(expRow)
    /\ UNCHANGED <<expRow, expToday, exceptExp>>

InitExperience ==
    /\ RaceIdle
    /\ FailIdle
    /\ ExportIdle
    /\ expRow = NoExperience
    /\ expToday \in ExpDates
    /\ expRead = NoDuration
    /\ SingletonIdle /\ BlogIdle /\ SlugIdle /\ RefIdle /\ ContactIdle
    /\ ProjIdle /\ SkillIdle /\ ListingIdle /\ CertIdle

NextExperience ==
    \/ \E start \in ExpDates, end \in ExpDates \cup {NoDate} :
          /\ end # NoDate => end >= start
          /\ start <= expToday
          /\ SaveExperience(start, end)
    \/ ReadDuration
    \/ ReadDurationDisplay

SpecExperience == InitExperience /\ [][NextExperience]_vars

(***************************************************************************)
(* The export_json management command.  The store holds the Profile and    *)
(* SiteSettings tables and the years_experience of the Skill rows in the   *)
(* order of Skill.Meta.ordering; years are counted in tenths.  The tables  *)
(* of the other four collections are held fixed: each of their steps       *)
(* writes the list of all the rows.  A file is named by its step.          *)
(***************************************************************************)

\* Mutant: the file is opened in append mode.
WriteFileAppend(files, step, data) ==
    [files EXCEPT ![step] =
        [exists |-> TRUE, data |-> (IF @.exists THEN @.data ELSE <<>>) \o data]]

\* with open(data_dir / '<step>.json', 'w') as f: json.dump(data, f, ...)
WriteFile(files, step, data) ==
    [files EXCEPT ![step] = [exists |-> TRUE, data |-> data]]

\* float(skill.years_experience) if skill.years_experience else None
YearsJson(years) ==
    IF years # NoYears /\ years # 0
    THEN [null |-> FALSE, tenths |-> years]
    ELSE [null |-> TRUE, tenths |-> 0]

\* The list export_skills dumps.
SkillsData(skills) ==
    [i \in 1..Len(skills) |-> [skill |-> i, years_experience |-> YearsJson(skills[i])]]

\* A step that wrote its file, one that ended in a warning, one that raised.
StepWrote(st, step, data) ==
    [st EXCEPT !.files = WriteFile(@, step, data),
               !.ran = Append(@, step),
               !.wrote = @ \cup {step}]
StepWarned(st, step) ==
    [st EXCEPT !.ran = Append(@, step), !.warnings = @ \cup {step}]
StepRaised(st, step, exc) ==
    [st EXCEPT !.ran = Append(@, step), !.raised = exc]

\* export_profile: only Profile.DoesNotExist is caught.
ExportProfile(st, fail) ==
    LET act == ActiveIds(st.store.profiles)
    IN  IF act = {} THEN StepWarned(st, "profile")
        ELSE IF Cardinality(act) > 1 THEN StepRaised(st, "profile", "MultipleObjectsReturned")
        ELSE IF fail = "profile" THEN StepRaised(st, "profile", "OSError")
        ELSE StepWrote(st, "profile", <<st.store.profiles[CHOOSE i \in act : TRUE].site_title>>)

\* export_skills, export_projects, export_experience, export_certifications,
\* export_blog: no exception is caught.
ExportList(st, step, data, fail) ==
    IF fail = step THEN StepRaised(st, step, "OSError")
    ELSE StepWrote(st, step, data)

\* export_site_settings: get_settings creates the default row when no row
\* is active; the bare except turns every exception into the warning.
ExportSiteSettings(st, fail) ==
    LET tbl == st.store.settings
        act == ActiveIds(tbl)
        key == IF act = {} THEN FreshId(tbl) ELSE CHOOSE i \in act : TRUE
        got == IF act = {} THEN SingletonSave(tbl, key, DefaultSettings) ELSE tbl
        st1 == [st EXCEPT !.store.settings = got]
    IN  IF Cardinality(act) > 1 \/ fail = "site"
        THEN StepWarned(st1, "site")
        ELSE StepWrote(st1, "site", <<got[key].site_title>>)

ExportStep(st, step, fail) ==
    IF step = "profile" THEN ExportProfile(st, fail)
    ELSE IF step = "skills" THEN ExportList(st, step, SkillsData(st.store.skills), fail)
    ELSE IF step = "site" THEN ExportSiteSettings(st, fail)
    ELSE ExportList(st, step, <<"all rows">>, fail)

\* The calls of handle from the i-th on: an exception leaves handle.
RECURSIVE RunSteps(_, _, _)
RunSteps(st, i, fail) ==
    IF i > Len(Steps) \/ st.raised # "none" THEN st
    ELSE RunSteps(ExportStep(st, Steps[i], fail), i + 1, fail)

\* Command.handle; completed stands for the line 'Export completed!'.
Handle(store, files, fail) ==
    LET st == RunSteps([store |-> store, files |-> files, ran |-> <<>>,
                        wrote |-> {}, warnings |-> {}, raised |-> "none"], 1, fail)
    IN  [before |-> store, fail |-> fail, store |-> st.store, files |-> st.files,
         ran |-> st.ran, wrote |-> st.wrote, warnings |-> st.warnings, raised |-> st.raised,
         completed |-> st.raised = "none"]

\* The admin saves a new Profile row.
SaveProfileRow(active) ==
    LET tbl == xStore.profiles
    IN  /\ xRuns = <<>>
        /\ FreshId(tbl) # 0
        /\ xStore' = [xStore EXCEPT !.profiles =
                         SingletonSave(tbl, FreshId(tbl), SingletonRow(active, "custom"))]
        /\ UNCHANGED <<xFiles, xRuns, exceptExport>>

\* Two requests save a new active Profile row each, their statements
\* interleaved clear, clear, persist, persist.
RacingProfileSaves ==
    LET tbl == ClearActive(ClearActive(xStore.profiles))
        one == PersistRow(tbl, FreshId(tbl), SingletonRow(TRUE, "custom"))
    IN  /\ xRuns = <<>>
        /\ FreshId(tbl) # 0
        /\ FreshId(one) # 0
        /\ xStore' = [xStore EXCEPT !.profiles =
                         PersistRow(one, FreshId(one), SingletonRow(TRUE, "custom"))]
        /\ UNCHANGED <<xFiles, xRuns, exceptExport>>

\* The admin saves a new SiteSettings row.
SaveSettingsRow(active) ==
    LET tbl == xStore.settings
    IN  /\ xRuns = <<>>
        /\ FreshId(tbl) # 0
        /\ xStore' = [xStore EXCEPT !.settings =
                         SingletonSave(tbl, FreshId(tbl), SingletonRow(active, "custom"))]
        /\ UNCHANGED <<xFiles, xRuns, exceptExport>>

\* The admin saves a new Skill row with the given years_experience.
SaveSkill(years) ==
    /\ xRuns = <<>>
    /\ Len(xStore.skills) < MaxExported
    /\ xStore' = [xStore EXCEPT !.skills = Append(@, years)]
    /\ UNCHANGED <<xFiles, xRuns, exceptExport>>

\* python manage.py export_json; fail names the step whose open() raises
\* OSError, if any.
ExportRun(fail) ==
    LET run == Handle(xStore, xFiles, fail)
    IN  /\ Len(xRuns) < MaxRuns
        /\ ActiveIds(xStore.settings) = {} => FreshId(xStore.settings) # 0
        /\ xStore' = run.store
        /\ xFiles' = run.files
        /\ xRuns' = Append(xRuns, run)
        /\ UNCHANGED exceptExport

InitExport ==
    /\ RaceIdle
    /\ FailIdle
    /\ xStore = EmptyStore
    /\ xFiles = [s \in StepSet |-> NoFile]
    /\ xRuns = <<>>
    /\ SingletonIdle /\ BlogIdle /\ SlugIdle /\ RefIdle /\ ContactIdle
    /\ ProjIdle /\ SkillIdle /\ ListingIdle /\ CertIdle /\ ExpIdle

NextExport ==
    \/ \E active \in BOOLEAN : SaveProfileRow(active)
    \/ RacingProfileSaves
    \/ \E active \in BOOLEAN : SaveSettingsRow(active)
    \/ \E years \in {NoYears, 0, 25} : SaveSkill(years)
    \/ \E fail \in {"none", "profile", "skills", "site"} : ExportRun(fail)

SpecExport == InitExport /\ [][NextExport]_vars

(***************************************************************************)
(* Profile.save / SiteSettings.save when super().save() may raise (the     *)
(* database refuses the INSERT or UPDATE).  The clear is a statement of    *)
(* its own: no transaction is open, so it is committed when it returns.    *)
(***************************************************************************)

\* The table a save() leaves behind whose super().save() raises.
SingletonSaveRaising(tbl, inst) ==
    IF inst.is_active THEN ClearActive(tbl) ELSE tbl

\* save() on instance id (0: a new instance) of the model; raises tells
\* whether super().save() raises.
SaveMayFail(id, active, raises) ==
    LET key == SaveTarget(fTable, id)
        inst == SingletonRow(active, "custom")
    IN  /\ key # 0
        /\ id # 0 => Exists(fTable, id)
        /\ fTable' = IF raises THEN SingletonSaveRaising(fTable, inst)
                     ELSE SingletonSave(fTable, key, inst)
        /\ fSave' = [id |-> key, active |-> active, raised |-> raises, before |-> fTable]
        /\ UNCHANGED <<fModel, exceptFail>>

InitSaveFail ==
    /\ RaceIdle
    /\ fModel \in Models
    /\ fTable = EmptyTable
    /\ fSave = NoSave
    /\ SingletonIdle /\ BlogIdle /\ SlugIdle /\ RefIdle /\ ContactIdle
    /\ ProjIdle /\ SkillIdle /\ ListingIdle /\ CertIdle /\ ExpIdle /\ ExportIdle

NextSaveFail ==
    \E id \in Ids \cup {0}, active \in BOOLEAN, raises \in BOOLEAN :
        SaveMayFail(id, active, raises)

SpecSaveFail == InitSaveFail /\ [][NextSaveFail]_vars

(***************************************************************************)
(* SiteSettings.get_settings called by several requests at once (the       *)
(* context processor runs it for every page).  get_or_create is a lookup   *)
(* and, when the lookup found nothing, a create: two steps, with other     *)
(* requests' steps in between.  The create runs save() inside the          *)
(* transaction get_or_create opens, so its clear and its INSERT are taken  *)
(* as one step.  No unique constraint guards is_active.                    *)
(***************************************************************************)

\* cls.objects.get(is_active=True) inside get_or_create
GetLookup(p) ==
    LET act == ActiveIds(gsTable)
    IN  /\ gsCall[p].pc = "idle"
        /\ gsCall' = [gsCall EXCEPT ![p] =
                         IF act = {} THEN [pc |-> "missed", ret |-> 0, created |-> FALSE]
                         ELSE IF Cardinality(act) = 1
                         THEN [pc |-> "done", ret |-> CHOOSE i \in act : TRUE, created |-> FALSE]
                         ELSE [pc |-> "MultipleObjectsReturned", ret |-> 0, created |-> FALSE]]
        /\ UNCHANGED <<gsStart, gsTable, exceptRace>>

\* cls.objects.create(is_active=True, **defaults) inside get_or_create, after
\* a lookup that found no row (the key space of the model has room)
GetCreate(p) ==
    LET key == FreshId(gsTable)
    IN  /\ gsCall[p].pc = "missed"
        /\ key # 0
        /\ gsTable' = SingletonSave(gsTable, key, DefaultSettings)
        /\ gsCall' = [gsCall EXCEPT ![p] = [pc |-> "done", ret |-> key, created |-> TRUE]]
        /\ UNCHANGED <<gsStart, exceptRace>>

\* The request is answered; the worker takes the next request.
GetReturn(p) ==
    /\ gsCall[p].pc \in {"done", "MultipleObjectsReturned"}
    /\ gsCall' = [gsCall EXCEPT ![p] = IdleCall]
    /\ UNCHANGED <<gsStart, gsTable, exceptRace>>

InitSettingsRace ==
    /\ gsStart \in SingletonTables
    /\ gsTable = gsStart
    /\ gsCall = [p \in Callers |-> IdleCall]
    /\ SingletonIdle /\ BlogIdle /\ SlugIdle /\ RefIdle /\ ContactIdle
    /\ ProjIdle /\ SkillIdle /\ ListingIdle /\ CertIdle /\ ExpIdle /\ ExportIdle
    /\ FailIdle

NextSettingsRace ==
    \/ \E p \in Callers : GetLookup(p)
    \/ \E p \in Callers : GetCreate(p)
    \/ \E p \in Callers : GetReturn(p)

SpecSettingsRace == InitSettingsRace /\ [][NextSettingsRace]_vars

(***************************************************************************)
(* Claims about the singleton models                                       *)
(***************************************************************************)

\* C1: in every state reached by a series of Profile.save, SiteSettings.save
\* and SiteSettings.get_settings calls, run one after another, at most one
\* Profile row and at most one SiteSettings row has is_active = TRUE.
C1_AtMostOneActive ==
    \A m \in Models : Cardinality(ActiveIds(singles[m])) <= 1

\* C1's case: a table holds an active row beside a row that an earlier save
\* had made active and a later save has cleared.
C1_Witness ==
    \E m \in Models : \E i, j \in Ids :
        /\ i # j
        /\ Exists(singles[m], i) /\ singles[m][i].is_active
        /\ Exists(singles[m], j) /\ ~singles[m][j].is_active
        /\ lastSaved[m] = i
        /\ ~allActive[m]

\* C2: after a non-empty series of saves of one model that all carried
\* is_active = TRUE, exactly one row of the model is active: the row saved last.
C2_LastSavedIsTheActiveRow ==
    \A m \in Models :
        (lastSaved[m] # 0 /\ allActive[m]) => ActiveIds(singles[m]) = {lastSaved[m]}

\* C2's case: only active saves so far, of every key of the table, and the
\* latest one went back to an older row.
C2_Witness ==
    \E m \in Models :
        /\ allActive[m]
        /\ ExistingIds(singles[m]) = Ids
        /\ lastSaved[m] = 1
        /\ ActiveIds(singles[m]) = {1}

\* C3: when two saves with is_active = TRUE of two different rows of one model
\* run concurrently, their statements interleaved in any order, no more than
\* one row of the model is active once both have completed.
C3_OneActiveAfterConcurrentSaves ==
    \A p, q \in Savers :
        ( /\ p # q
          /\ saver[p].pc = "done" /\ saver[q].pc = "done"
          /\ saver[p].active /\ saver[q].active
          /\ saver[p].model = saver[q].model
          /\ saver[p].id # saver[q].id )
        => Cardinality(ActiveIds(singles[saver[p].model])) <= 1


(***************************************************************************)
(* Claims about BlogPost and the blog post page                            *)
(***************************************************************************)

\* The requests that were served post i.
ServedPost(i) == {p \in Viewers : viewer[p].pc = "done" /\ viewer[p].res = "ok" /\ viewer[p].id = i}

\* C4: when K requests view the same published post concurrently, the read
\* and the write of each interleaved in any order, view_count is exactly K
\* more than before once all K have completed.
C4_NoViewLost ==
    (\A p \in Viewers : viewer[p].pc = "done")
    => \A i \in PostIds :
          posts[i] # NoRow => posts[i].view_count = count0[i] + Cardinality(ServedPost(i))

\* C5: viewing a published post N times one after another raises its
\* view_count by exactly N (every completed view by exactly one, so the count
\* equals the number of completed views), and a view changes no other field
\* of the post and no other post.
C5_ViewsAreCounted ==
    /\ [](\A i \in PostIds : posts[i] # NoRow => posts[i].view_count = nviews[i])
    /\ [][(op'.name = "view" /\ op'.res = "ok")
            => posts' = [posts EXCEPT ![op'.id].view_count = @ + 1]]_vars

\* C5's case: a post viewed MaxViews times, the latest view at a later
\* instant than the post's latest save.
C5_Witness ==
    /\ op.name = "view" /\ op.res = "ok"
    /\ nviews[op.id] = MaxViews
    /\ posts[op.id].view_count = MaxViews
    /\ posts[op.id].updated_at < now

\* Some stored post that is not published has the slug.
HiddenWithSlug(tbl, slug) ==
    \E i \in PostIds : tbl[i] # NoRow /\ tbl[i].slug = slug /\ tbl[i].status # "published"

\* C6: a request for the page of a draft or archived post yields NotFound
\* (Http404) and leaves every stored field of every post unchanged.
C6_HiddenPostNotFound ==
    [][(op'.name = "view" /\ HiddenWithSlug(posts, op'.slug))
         => (op'.res = "Http404" /\ posts' = posts)]_vars

\* C6's case: the latest request asked for the slug of a stored draft or
\* archived post.
C6_Witness ==
    /\ op.name = "view"
    /\ op.res = "Http404"
    /\ HiddenWithSlug(posts, op.slug)

\* C7: when persisting the view_count increment fails, the view still
\* returns the post.
C7_ViewSurvivesFailedIncrement ==
    (op.name = "view" /\ op.failed) => op.res = "ok"

\* The publish date of the instance handed to the latest save().
SavedFrom(tbl, o) ==
    IF o.name = "create" \/ o.edit = "clear" THEN NoDate ELSE tbl[o.id].published_date

\* C8: a save with status published and an empty published_date sets
\* published_date to the instant of the save; a save with published_date set
\* leaves it as it is; a save with status draft or archived leaves an empty
\* published_date empty.
C8_PublishDateDefaulting ==
    [][(op'.name \in {"create", "save"} /\ op'.res = "ok")
         => LET row == posts'[op'.id]
                was == SavedFrom(posts, op')
            IN  /\ (row.status = "published" /\ was = NoDate) => row.published_date = now
                /\ was # NoDate => row.published_date = was
                /\ (row.status # "published" /\ was = NoDate) => row.published_date = NoDate]_vars

\* C8's case: a published post saved again at a later instant than the one
\* it was published at.
C8_Witness ==
    /\ op.name = "save" /\ op.res = "ok" /\ op.edit = "keep"
    /\ posts[op.id].status = "published"
    /\ posts[op.id].published_date # NoDate
    /\ posts[op.id].published_date < now
    /\ posts[op.id].updated_at = now


(***************************************************************************)
(* Claims about the slug-carrying models                                   *)
(***************************************************************************)

\* C9: every row created without an explicit slug has, from its creation
\* on and through every later save, a non-empty slug equal to the
\* lower-case hyphenated form of its name or title at creation (for a
\* Skill: of the area's name joined to the skill's name).
C9_SlugDerivedOnceAndKept ==
    \A i \in EntIds :
        (ents[i] # NoRow /\ born[i].auto)
        => (ents[i].slug # <<>> /\ ents[i].slug = slugify(born[i].text))

\* The models whose name the data model of the specification calls unique.
NameUniqueBySpec(k) ==
    k \in {"SkillArea", "ProjectCategory", "BlogSeries", "BlogCategory", "BlogTag"}

\* Writing inst as row id would leave two rows with one slug, two rows of a
\* unique-name model with one name, or two Skills with one (area, name).
WouldDuplicate(k, tbl, id, inst) ==
    \E j \in EntIds :
        /\ j # id
        /\ tbl[j] # NoRow
        /\ \/ tbl[j].slug = inst.slug
           \/ NameUniqueBySpec(k) /\ tbl[j].name = inst.name
           \/ k = "Skill" /\ tbl[j].area = inst.area /\ tbl[j].name = inst.name

\* C10: a create or update that would duplicate a slug, a Skill's
\* (area, name) or the name of a unique-name model is rejected with a
\* constraint violation and leaves the table as it was.
C10_DuplicateWriteRejected ==
    [][(wr'.table = "ents" /\ WouldDuplicate(kind, ents, wr'.id, wr'.inst))
         => (wr'.res = "IntegrityError" /\ ents' = ents)]_vars

\* C11: in every reachable state no two BlogSeries rows have the same
\* name, no two BlogCategory rows have the same name and no two BlogTag
\* rows have the same name, also when the rows were created with explicit,
\* distinct slugs.
C11_TaxonomyNamesUnique ==
    kind \in {"BlogSeries", "BlogCategory", "BlogTag"}
    => \A i, j \in EntIds :
          (i # j /\ ents[i] # NoRow /\ ents[j] # NoRow) => ents[i].name # ents[j].name

(***************************************************************************)
(* Claims about the foreign keys                                           *)
(***************************************************************************)

\* C12: after any sequence of creates and deletes no row references a
\* deleted row: deleting a SkillArea deletes every Skill of that area,
\* deleting a Project deletes every ProjectImage of that project, and
\* deleting a ProjectCategory, BlogSeries or BlogCategory keeps every
\* dependent Project / BlogPost and sets its reference to null.
C12_NoDanglingReference ==
    /\ [](\A c \in ChildIds :
            (children[c] # NoRow /\ children[c].ref # NullRef)
            => parents[children[c].ref] # NoRow)
    /\ [][del'.name = "delete_parent"
          => \A c \in del'.kids :
                IF rel.parent \in {"SkillArea", "Project"}
                THEN children'[c] = NoRow
                ELSE children'[c] # NoRow /\ children'[c].ref = NullRef]_vars

\* C12's case: a referenced row was deleted while rows referred to it.
C12_Witness ==
    /\ del.name = "delete_parent"
    /\ del.kids # {}
    /\ \E c \in ChildIds : children[c] # NoRow
    /\ \E p \in ParentIds : parents[p] # NoRow

(***************************************************************************)
(* Claims about get_settings                                               *)
(***************************************************************************)

\* C13: SiteSettings.get_settings never raises: from every reachable state
\* it returns a SiteSettings row with is_active=true, creating a default
\* row (site_title 'Portfolio') only when no active row exists; calling it
\* twice in a row returns the same row and creates at most one row.
C13_GetSettingsNeverRaises ==
    /\ [](settingsRet.kind \in {"none", "row"})
    /\ [][settingsRet' # settingsRet
          => LET before == singles["SiteSettings"]
                 after == singles'["SiteSettings"]
                 ret == settingsRet'
             IN  /\ ret.kind = "row"
                 /\ Exists(after, ret.id) /\ after[ret.id].is_active
                 /\ ret.created <=> ActiveIds(before) = {}
                 /\ ret.created => (~Exists(before, ret.id) /\ after[ret.id] = DefaultSettings)
                 /\ ~ret.created => after = before
                 /\ (settingsRet.kind = "row" /\ settingsRet.id \in ActiveIds(before))
                    => (ret.id = settingsRet.id /\ ~ret.created)]_vars

(***************************************************************************)
(* Claims about the contact form                                           *)
(***************************************************************************)

\* A field of the submission is missing: it holds no character but spaces.
Missing(post, f) == \A i \in 1..Len(post[f]) : post[f][i] = " "

\* The email of the submission is there and is no address.
Malformed(post) == ~Missing(post, "email") /\ ~IsEmail(Strip(post.email))

\* The fields of the submission that violate the form's rules.
Violations(post) ==
    {f \in ContactFields : Missing(post, f) \/ (f = "email" /\ Malformed(post))}

\* ip is the text of xff before its first comma.
IsFirstEntry(ip, xff) ==
    /\ \A i \in 1..Len(ip) : ip[i] # ","
    /\ Len(ip) <= Len(xff)
    /\ SubSeq(xff, 1, Len(ip)) = ip
    /\ Len(ip) < Len(xff) => xff[Len(ip) + 1] = ","

\* The address the claim expects for the request with headers meta.
IsCallerAddress(ip, meta) ==
    IF "HTTP_X_FORWARDED_FOR" \in DOMAIN meta
    THEN IsFirstEntry(ip, meta.HTTP_X_FORWARDED_FOR)
    ELSE ip = meta.REMOTE_ADDR

\* agent is the request's user-agent cut to at most 500 characters.
IsCutAgent(agent, meta) ==
    LET ua == IF "HTTP_USER_AGENT" \in DOMAIN meta THEN meta.HTTP_USER_AGENT ELSE <<>>
    IN  /\ Len(agent) <= 500
        /\ Len(agent) <= Len(ua)
        /\ SubSeq(ua, 1, Len(agent)) = agent
        /\ Len(agent) = Len(ua) \/ Len(agent) = 500

\* The step is a contact submission that violates none of the form's rules.
ValidSubmission == ctime' = ctime /\ sub'.res # "none" /\ Violations(sub'.post) = {}

\* Exactly one row was added, with status 'new', the caller's address and
\* the cut agent.
OneNewMessage ==
    /\ sub'.res = "saved"
    /\ Len(msgs') = Len(msgs) + 1
    /\ SubSeq(msgs', 1, Len(msgs)) = msgs
    /\ msgs'[Len(msgs')].status = "new"
    /\ IsCallerAddress(msgs'[Len(msgs')].ip_address, sub'.meta)
    /\ IsCutAgent(msgs'[Len(msgs')].user_agent, sub'.meta)

\* C14 as stated: every valid contact form submission persists exactly one
\* new ContactMessage with status 'new', the submitted name, email, subject
\* and message, the caller's IP address (first entry of X-Forwarded-For
\* when present, otherwise the remote address) and the caller's user-agent
\* cut to at most 500 characters.
C14_SubmittedFieldsStoredVerbatim ==
    [][ValidSubmission
       => /\ OneNewMessage
          /\ \A f \in ContactFields : msgs'[Len(msgs')][f] = sub'.post[f]]_vars

\* C14, amended: every valid contact form submission persists exactly one
\* new ContactMessage with status 'new', the submitted name, email, subject
\* and message each without its leading and trailing whitespace, the
\* caller's IP address (first entry of X-Forwarded-For when present,
\* otherwise the remote address) and the caller's user-agent cut to at
\* most 500 characters.
C14_ValidSubmissionPersisted ==
    [][ValidSubmission
       => /\ OneNewMessage
          /\ \A f \in ContactFields : msgs'[Len(msgs')][f] = Strip(sub'.post[f])]_vars

\* C14's case: a valid submission that came through a proxy with an agent
\* of more than 500 characters and a padded name was stored after another.
C14_Witness ==
    /\ sub.res = "saved"
    /\ Len(msgs) = 2
    /\ "HTTP_X_FORWARDED_FOR" \in DOMAIN sub.meta
    /\ "HTTP_USER_AGENT" \in DOMAIN sub.meta /\ Len(sub.meta.HTTP_USER_AGENT) > 500
    /\ sub.post.name # Strip(sub.post.name)
    /\ msgs[2].ip_address = <<"1">>
    /\ Len(msgs[2].user_agent) = 500

\* Submissions of one source stored within one hour (one instant of ctime)
\* up to the row i.
SameHourBefore(i) ==
    {j \in 1..i : msgs[j].ip_address = msgs[i].ip_address
                  /\ msgs[j].created_at = msgs[i].created_at}

\* C15: for every source, at most 5 contact submissions are accepted
\* (persisted as ContactMessage) within any one hour; a sixth submission
\* from the same source within the hour is rejected and persists nothing.
C15_FivePerHourPerSource ==
    \A i \in 1..Len(msgs) : Cardinality(SameHourBefore(i)) <= 5

\* C16: a contact submission in which any of name, email, subject or
\* message is missing, or the email is malformed, is rejected before any
\* persistence: the set of ContactMessage rows is unchanged, and all
\* violations of the submission are reported together.
C16_InvalidSubmissionRejected ==
    [][(ctime' = ctime /\ sub'.res # "none" /\ Violations(sub'.post) # {})
       => /\ sub'.res = "invalid"
          /\ msgs' = msgs
          /\ sub'.errors = Violations(sub'.post)]_vars

\* C16's case: a submission with several violations, one of them a
\* malformed email, was rejected while a message was stored.
C16_Witness ==
    /\ sub.res = "invalid"
    /\ msgs # <<>>
    /\ Malformed(sub.post)
    /\ Cardinality(sub.errors) >= 2

(***************************************************************************)
(* Claims about the listings                                               *)
(***************************************************************************)

\* The parameter is absent or empty.
NotGiven(get, key) == key \notin DOMAIN get \/ get[key] = <<>>

\* text contains q, letter case ignored.
HasIgnoringCase(text, q) ==
    \E i \in 0..Len(text) :
        /\ i + Len(q) <= Len(text)
        /\ \A k \in 1..Len(q) : Lower(text[i + k]) = Lower(q[k])

\* The project passes the filters the query string gives.
ProjectWanted(row, get) ==
    /\ NotGiven(get, "q")
       \/ HasIgnoringCase(row.title, get.q)
       \/ HasIgnoringCase(row.situation, get.q)
       \/ HasIgnoringCase(row.action, get.q)
    /\ NotGiven(get, "category")
       \/ \E c \in DOMAIN ProjCats : row.category = c /\ ProjCats[c].slug = get.category

\* A projects request has been answered.
ProjectsListed == projGet # NoGet \/ projList # {}

\* C17: the projects listing returns exactly the projects that satisfy
\* every given filter: with q set, those whose title, situation or action
\* contains q ignoring case (result and task are not searched); with
\* category set, those whose category has exactly that slug; a category
\* slug that matches no category yields an empty result, not an error; an
\* absent or empty parameter filters nothing.
C17_ProjectsListingFilters ==
    ProjectsListed
    => /\ projList = {i \in ProjIds : projTable[i] # NoRow /\ ProjectWanted(projTable[i], projGet)}
       /\ (~NotGiven(projGet, "category")
           /\ \A c \in DOMAIN ProjCats : ProjCats[c].slug # projGet.category)
          => projList = {}
       /\ (NotGiven(projGet, "q") /\ NotGiven(projGet, "category"))
          => projList = {i \in ProjIds : projTable[i] # NoRow}

\* C17's case: a search that matches one project by its situation in
\* another letter case and a second project only by its task or result,
\* within a category: the first is listed, the second is not.
C17_Witness ==
    /\ ~NotGiven(projGet, "q") /\ ~NotGiven(projGet, "category")
    /\ \E i, j \in ProjIds :
          /\ i # j /\ projTable[i] # NoRow /\ projTable[j] # NoRow
          /\ i \in projList /\ j \notin projList
          /\ projTable[i].situation # projGet.q
          /\ projTable[j].category = projTable[i].category
          /\ HasIgnoringCase(projTable[j].task, projGet.q)

\* The skill passes the filters the query string gives.
SkillWanted(row, get) ==
    /\ NotGiven(get, "level") \/ row.sfia_level = get.level
    /\ NotGiven(get, "sector") \/ row.sector = get.sector
    /\ NotGiven(get, "area") \/ skillAreas[row.area].slug = get.area

\* Row a may stand before row b: by area (in the order of the areas), then
\* by manual order, then by name.
InListingOrder(a, b) ==
    LET aa == skillAreas[a.area]
        ab == skillAreas[b.area]
    IN  IF a.area # b.area
        THEN aa.order < ab.order \/ (aa.order = ab.order /\ TextBefore(aa.name, ab.name))
        ELSE a.order < b.order \/ (a.order = b.order /\ TextBefore(a.name, b.name))

\* A skills request has been answered.
SkillsListed == skillGet # NoGet \/ skillList # <<>>

\* C18: the skills listing returns exactly the skills that match all of
\* the given filters level (exact sfia_level), sector (exact) and area
\* (exact area slug), all skills when none is given, ordered by area, then
\* manual order, then name.
C18_SkillsListingFiltersAndOrder ==
    SkillsListed
    => /\ {skillList[p] : p \in 1..Len(skillList)}
            = {i \in SkillIds : skillTable[i] # NoRow /\ SkillWanted(skillTable[i], skillGet)}
       /\ \A p, q \in 1..Len(skillList) :
             p < q => /\ skillList[p] # skillList[q]
                      /\ InListingOrder(skillTable[skillList[p]], skillTable[skillList[q]])
       /\ skillGet = NoGet
          => Len(skillList) = Cardinality({i \in SkillIds : skillTable[i] # NoRow})

\* C18's case: a filtered listing of two skills of one area whose manual
\* order runs against their names, while a third skill is filtered out.
C18_Witness ==
    /\ ~NotGiven(skillGet, "level")
    /\ Len(skillList) = 2
    /\ \E i \in SkillIds : skillTable[i] # NoRow /\ \A p \in 1..2 : skillList[p] # i
    /\ skillTable[skillList[1]].area = skillTable[skillList[2]].area
    /\ skillTable[skillList[1]].order < skillTable[skillList[2]].order
    /\ TextBefore(skillTable[skillList[2]].name, skillTable[skillList[1]].name)

\* The published posts of the listing's table.
PublishedIds == {i \in ListedIds : blogTable[i] # NoRow /\ blogTable[i].status = "published"}

\* The number of pages of at most 10 posts the published posts fill.
PagesNeeded == CHOOSE n \in 1..(MaxListed + 1) :
                   /\ n * 10 >= Cardinality(PublishedIds)
                   /\ n > 1 => (n - 1) * 10 < Cardinality(PublishedIds)

\* Post i may stand before post j: later published_date first, later
\* creation first among equal dates.
NewestFirst(i, j) ==
    \/ blogTable[i].published_date > blogTable[j].published_date
    \/ /\ blogTable[i].published_date = blogTable[j].published_date
       /\ blogTable[i].created_at > blogTable[j].created_at

\* C19: the blog listing contains exactly the posts with status
\* 'published' (never a draft or archived post), ordered by published_date
\* descending then creation time descending, in pages of at most 10 posts
\* that together cover each published post exactly once.
C19_BlogListingPages ==
    /\ \A p \in PageNos :
          LET objs == blogPages[p].objs
          IN  /\ blogPages[p].res = "ok" => p <= PagesNeeded
              /\ blogPages[p].res = "Http404" => p > PagesNeeded
              /\ Len(objs) <= 10
              /\ \A k \in 1..Len(objs) : objs[k] \in PublishedIds
              /\ \A k, l \in 1..Len(objs) : k < l => NewestFirst(objs[k], objs[l])
    /\ \A p, q \in PageNos :
          (p < q /\ blogPages[p].res = "ok" /\ blogPages[q].res = "ok")
          => \A k \in 1..Len(blogPages[p].objs), l \in 1..Len(blogPages[q].objs) :
                NewestFirst(blogPages[p].objs[k], blogPages[q].objs[l])
    /\ (PagesNeeded <= MaxPageNo /\ \A p \in 1..PagesNeeded : blogPages[p].res = "ok")
       => \A i \in PublishedIds :
             Cardinality({<<p, k>> \in PageNos \X (1..10) :
                             k <= Len(blogPages[p].objs) /\ blogPages[p].objs[k] = i}) = 1

\* C19's case: more than 10 published posts beside a draft and an archived
\* post, both pages fetched, the first one full.
C19_Witness ==
    /\ Cardinality(PublishedIds) > 10
    /\ \E i, j \in ListedIds :
          /\ blogTable[i] # NoRow /\ blogTable[i].status = "draft"
          /\ blogTable[j] # NoRow /\ blogTable[j].status = "archived"
    /\ blogPages[1].res = "ok" /\ Len(blogPages[1].objs) = 10
    /\ blogPages[2].res = "ok" /\ Len(blogPages[2].objs) >= 1

(***************************************************************************)
(* Claims about Certification                                              *)
(***************************************************************************)

\* C20: Certification.is_expired is false when expiry_date is absent, true
\* when expiry_date is strictly before the current date, and false
\* otherwise, including when expiry_date equals the current date.
C20_IsExpired ==
    certRead.id # 0
    => LET expiry == certTable[certRead.id].expiry_date
       IN  /\ expiry = NoDate => ~certRead.value
           /\ (expiry # NoDate /\ expiry < certRead.day) => certRead.value
           /\ (expiry # NoDate /\ expiry > certRead.day) => ~certRead.value
           /\ expiry = certRead.day => ~certRead.value

\* C20's case: is_expired was read on the very day of the expiry_date,
\* after it had been read true for another certification.
C20_Witness ==
    /\ certRead.id # 0
    /\ certTable[certRead.id].expiry_date = certRead.day
    /\ ~certRead.value
    /\ \E i \in CertIds :
          /\ certTable[i] # NoRow /\ certTable[i].expiry_date # NoDate
          /\ certTable[i].expiry_date < certRead.day

(***************************************************************************)
(* Claims about Experience.duration.                                       *)
(***************************************************************************)
\* The date the duration runs to: end_date, or today when it is empty.
RunsTo(row) == IF row.end_date # NoDate THEN row.end_date ELSE expToday

\* Whole calendar months from one date to a later one.
WholeMonths(from, to) ==
    LET y(d) == d \div 10000
        m(d) == (d \div 100) % 100
        dd(d) == d % 100
    IN  (y(to) - y(from)) * 12 + (m(to) - m(from)) - (IF dd(to) < dd(from) THEN 1 ELSE 0)

Plural(n, unit) == ToString(n) \o " " \o unit \o (IF n > 1 THEN "s" ELSE "")

Rendered(months) ==
    LET y == months \div 12
        m == months % 12
    IN  IF y = 0 /\ m = 0 THEN "Less than 1 month"
        ELSE IF m = 0 THEN Plural(y, "yr")
        ELSE IF y = 0 THEN Plural(m, "mo")
        ELSE Plural(y, "yr") \o " " \o Plural(m, "mo")

\* C21: every read of Experience.duration returns the whole elapsed calendar
\* years and months from start_date to end_date (to the current date when
\* end_date is empty), rendered '<y> yr(s) <m> mo(s)' with a zero component
\* left out and 'Less than 1 month' when both are zero; 2020-01-15 to
\* 2021-03-15 reads '1 yr 2 mos'.
C21_DurationRendered ==
    expRead.via = "duration" =>
        /\ expRead.raised = "none"
        /\ expRead.text = Rendered(WholeMonths(expRow.start_date, RunsTo(expRow)))
        /\ (expRow.start_date = 20200115 /\ expRow.end_date = 20210315)
              => expRead.text = "1 yr 2 mos"

(***************************************************************************)
(* Claims about the export command.                                        *)
(***************************************************************************)
RunIds == 1..Len(xRuns)

C23_MissingSingletonWarned ==
    \A r \in RunIds :
        LET run == xRuns[r]
        IN  (run.fail = "none" /\ Cardinality(ActiveIds(run.before.profiles)) <= 1) =>
               /\ ActiveIds(run.before.profiles) = {} =>
                     /\ "profile" \in run.warnings
                     /\ "profile" \notin run.wrote
                     /\ run.completed
               /\ ExistingIds(run.before.settings) = {} =>
                     /\ "site" \in run.warnings
                     /\ "site" \notin run.wrote
                     /\ run.completed

\* C24: in every run each of the seven export steps runs, in the fixed
\* order, whatever an earlier step did.
C24_EveryStepRuns ==
    \A r \in RunIds : xRuns[r].ran = Steps

\* C27: the years_experience written to skills.json is the stored number
\* whenever one is stored, 0 included, and null only when none is stored.
C27_YearsExported ==
    \A r \in RunIds :
        LET run == xRuns[r]
        IN  "skills" \in run.wrote =>
               /\ Len(run.files["skills"].data) = Len(run.before.skills)
               /\ \A i \in 1..Len(run.before.skills) :
                     LET stored == run.before.skills[i]
                         json == run.files["skills"].data[i].years_experience
                     IN  /\ json.null <=> stored = NoYears
                         /\ ~json.null => json.tenths = stored

\* C29: a run of the export leaves the stored rows and all their fields as
\* they were before the run.
C29_ExportOnlyReads ==
    \A r \in RunIds : xRuns[r].store = xRuns[r].before

(***************************************************************************)
(* Claims about a failing save of a singleton model.                       *)
(***************************************************************************)
\* C25: after a save with is_active = true whose persist step failed, every
\* other row of the model has the is_active flag it had before the save.
C25_FailedSaveClearsNothing ==
    (fSave.raised /\ fSave.active) =>
        \A i \in Ids \ {fSave.id} :
            Exists(fSave.before, i) =>
                /\ Exists(fTable, i)
                /\ fTable[i].is_active = fSave.before[i].is_active

(***************************************************************************)
(* Claims about the publish date under the admin's bulk actions.           *)
(***************************************************************************)
\* C26: once the published_date of a post is set, no save that leaves the
\* form's date alone, no view, and neither of the bulk actions publish_posts
\* and archive_posts changes it.
C26_PublishDateNeverChanges ==
    [][op'.edit # "clear" =>
          \A i \in PostIds :
              (posts[i] # NoRow /\ posts[i].published_date # NoDate)
                  => posts'[i].published_date = posts[i].published_date]_vars

\* C28: every stored post with status 'published' has a published_date, so
\* the posts of the blog listing are the posts whose is_published is true.
C28_ListedIsPublished ==
    /\ \A i \in StoredPosts(posts) :
          posts[i].status = "published" => posts[i].published_date # NoDate
    /\ BlogListing(posts) = {i \in StoredPosts(posts) : IsPublished(posts[i])}

\* C28's case: the bulk action has just published a post at a later instant,
\* beside a post that carries a publish date and is archived.
C28_Witness ==
    /\ op.name = "publish_posts"
    /\ \E i, j \in StoredPosts(posts) :
          /\ posts[i].status = "published" /\ posts[i].published_date = now /\ now > 1
          /\ posts[j].status = "archived" /\ posts[j].published_date # NoDate
          /\ BlogListing(posts) = {i}

(***************************************************************************)
(* Claims about concurrent calls of SiteSettings.get_settings.             *)
(***************************************************************************)
\* C30: when the requests called get_settings while no SiteSettings row
\* existed and all the calls have returned, exactly one SiteSettings row
\* exists, it is active, and every call returned it.
C30_ConcurrentGetSettingsOneRow ==
    (ExistingIds(gsStart) = {} /\ \A p \in Callers : gsCall[p].pc = "done") =>
        \E i \in Ids :
            /\ ExistingIds(gsTable) = {i}
            /\ gsTable[i].is_active
            /\ \A p \in Callers : gsCall[p].ret = i

====
